---- MODULE Spec2Model ----
(***************************************************************************)
(* Discrete-event model of the wireless network simulator: Radio, World    *)
(* (shared medium) and the delivery trackers, run on simpy's event queue.  *)
(*                                                                         *)
(* Time is a natural number of time units; a receive window that must      *)
(* outlast a transmission (the tests' "5 + 1E-3") is a window at least one *)
(* unit longer than the airtime.  RSSI values are scaled by ten            *)
(* (1.0 -> 10, 0.1 -> 1, 2.0 -> 20).                                       *)
(***************************************************************************)
EXTENDS Integers, Sequences, FiniteSets, TLC

\* ---------------------------------------------------------------- bounds
MaxOps == 3
MaxSleeps == 2
MaxGap == 1
MaxDur == 2
MaxStart == 2
MaxNum == 3
MaxAdds == 2
MaxFirings == 2
MaxVal == 1

\* ------------------------------------------------------ program constants
HistCap == 100
TxRssi == 10
DefaultThreshold == 1
RaisedThreshold == 20

Nodes == <<"A", "B", "C">>
Names == {"A", "B", "C"}
Broadcast == "All"
LeftRxCause == "Radio stopped being in receive mode!"

Thresholds == {DefaultThreshold, TxRssi, RaisedThreshold}

\* ------------------------------------------------------------ data model
DataPacket(src, dest) == [src |-> src, dest |-> dest, contents |-> "Hello"]
NoData == [src |-> "", dest |-> "", contents |-> ""]
RadioPacket(data, duration, rssi) ==
    [data_packet |-> data, duration |-> duration, rssi |-> rssi]
NoPacket == RadioPacket(NoData, 0, 0)

PacketEvent(status, time, packet) ==
    [status |-> status, time |-> time, packet |-> packet]
\* mutant: the two packets of a collision stored the other way round
CollisionEvent_swapped(time, packet_a, packet_b) ==
    [status |-> "COLLISION", time |-> time,
     packet_a |-> packet_b, packet_b |-> packet_a]

CollisionEvent(time, packet_a, packet_b) ==
    [status |-> "COLLISION", time |-> time,
     packet_a |-> packet_a, packet_b |-> packet_b]

\* CollisionEvent.__eq__: Python reads `t and (aa and bb) or (ab and ba)` as
\* `(t and (aa and bb)) or (ab and ba)`
CollisionEvent_eq(x, y) ==
    \/ /\ x.time = y.time
       /\ x.packet_a = y.packet_a /\ x.packet_b = y.packet_b
    \/ /\ x.packet_a = y.packet_b
       /\ x.packet_b = y.packet_a

\* An optional mapping argument: given = FALSE is None; map holds the
\* entries of the dict in insertion order, each key once.
None == [given |-> FALSE, map |-> <<>>]
Mapping(m) == [given |-> TRUE, map |-> m]

\* mutant: every producer is called twice and the second value is kept
Produce_twice(fields, cells, out) ==
    [contents |-> [i \in DOMAIN fields |->
                     [name |-> fields[i].name,
                      val |-> cells[fields[i].cell] + 2 *
                              Cardinality({j \in 1..i :
                                  fields[j].cell = fields[i].cell})]],
     cells |-> [c \in DOMAIN cells |->
                  cells[c] + 2 * Cardinality({j \in DOMAIN fields :
                                                 fields[j].cell = c})]]

\* DataPacket.__init__, lines 48-51: the producers are called one after the
\* other in the order of the mapping.  A producer is a functor in the style
\* of DummyFunctor: it adds one to its cell and returns the cell.
RECURSIVE Produce(_, _, _)
Produce(fields, cells, out) ==
    IF fields = <<>>
    THEN [contents |-> out, cells |-> cells]
    ELSE LET f == Head(fields)
             v == cells[f.cell] + 1
         IN  Produce(Tail(fields), [cells EXCEPT ![f.cell] = v],
                     Append(out, [name |-> f.name, val |-> v]))

\* mutant: fields and contents may be given together
DataPacket_init_lenient(src, dest, fields, contents, cells) ==
    IF ~fields.given /\ ~contents.given
    THEN [ok |-> FALSE, cells |-> cells]
    ELSE IF fields.given
    THEN LET made == Produce(fields.map, cells, <<>>)
         IN  [ok |-> TRUE, cells |-> made.cells,
              packet |-> [src |-> src, dest |-> dest,
                          contents |-> made.contents]]
    ELSE [ok |-> TRUE, cells |-> cells,
          packet |-> [src |-> src, dest |-> dest, contents |-> contents.map]]

\* DataPacket.__init__ with both optional arguments; ok = FALSE for
\* RuntimeError.  cells is the state of the producers, before and after.
DataPacket_init(src, dest, fields, contents, cells) ==
    IF ~(fields.given # contents.given)
    THEN [ok |-> FALSE, cells |-> cells]
    ELSE IF fields.given
    THEN LET made == Produce(fields.map, cells, <<>>)
         IN  [ok |-> TRUE, cells |-> made.cells,
              packet |-> [src |-> src, dest |-> dest,
                          contents |-> made.contents]]
    ELSE [ok |-> TRUE, cells |-> cells,
          packet |-> [src |-> src, dest |-> dest, contents |-> contents.map]]

\* dict.__eq__: the same keys with the same values, in whatever order
dict_eq(a, b) ==
    {a[i] : i \in DOMAIN a} = {b[i] : i \in DOMAIN b}

\* DataPacket.__eq__
DataPacket_eq(p, q) ==
    p.src = q.src /\ p.dest = q.dest /\ dict_eq(p.contents, q.contents)

HistAppend_newest(h, e) ==
    IF Len(h) < HistCap THEN Append(h, e)
    ELSE Append(SubSeq(h, 1, HistCap - 1), e)

\* deque(maxlen=100).append
HistAppend(h, e) ==
    IF Len(h) < HistCap THEN Append(h, e) ELSE Append(Tail(h), e)

\* ------------------------------------------------------------- variables
VARIABLES
    now,          \* env.now
    queue,        \* simpy's event heap, kept in (time, priority, eid) order
    nextId,       \* next event / process identifier
    radio,        \* per node: the Radio object
    procs,        \* live simpy processes (transmit, receive, pending_transmit)
    world,        \* the World.communications process: what it is parked on
    collisions,   \* World._collision_packet_history
    driver,       \* the process that starts transmissions and receptions
    txLog,        \* history: every transmit() begun
    rxLog,        \* history: every receive() begun
    notifyLog,    \* history: every routing attempt made by the World
    mgr,          \* per node: the ScheduleManager of the node's Protocol
    halted,       \* env.run() has raised: an exception left a process
    sched,        \* a Schedule object driven directly, as in test_scheduling
    call          \* a constructor or comparison called directly, with its result

\* what Radio and World never touch
schedVars == <<mgr, halted, sched, call>>

vars == <<now, queue, nextId, radio, procs, world, collisions, driver,
          txLog, rxLog, notifyLog, mgr, halted, sched, call>>

\* ---------------------------------------------------------- event queue
URGENT == TRUE
NORMAL == FALSE
Entry(time, urgent, kind, id, pid, node, val, cause) ==
    [time |-> time, urgent |-> urgent, kind |-> kind, id |-> id, pid |-> pid,
     node |-> node, val |-> val, cause |-> cause]

\* heappush with key (time, priority, eid): the new entry goes behind every
\* entry of the same or an earlier (time, priority)
Ahead(a, e) ==
    a.time < e.time \/ (a.time = e.time /\ (a.urgent \/ ~e.urgent))
env_schedule(q, e) ==
    LET k == Cardinality({i \in 1..Len(q) : Ahead(q[i], e)})
    IN  SubSeq(q, 1, k) \o <<e>> \o SubSeq(q, k + 1, Len(q))

Timeout(q, t, delay, id, pid) ==
    env_schedule(q, Entry(t + delay, NORMAL, "timeout", id, pid, "", NoPacket, ""))
Initialize(q, t, pid) ==
    env_schedule(q, Entry(t, URGENT, "init", 0, pid, "", NoPacket, ""))
Interruption(q, t, pid, val, cause) ==
    env_schedule(q, Entry(t, URGENT, "interrupt", 0, pid, "", val, cause))

\* --------------------------------------------------------------- processes
Proc(kind, r, duration, data, pkt) ==
    [kind |-> kind, radio |-> r, duration |-> duration, data |-> data,
     pkt |-> pkt, end_time |-> 0, target |-> 0, collision |-> FALSE,
     receiving |-> 0, gotRecv |-> FALSE, gotVal |-> NoPacket,
     cond |-> FALSE, packet |-> NoData]

is_alive(ps, pid) == pid \in DOMAIN ps
Spawn(ps, pid, p) == [x \in DOMAIN ps \cup {pid} |-> IF x = pid THEN p ELSE ps[x]]
Kill(ps, pid) == [x \in DOMAIN ps \ {pid} |-> ps[x]]

RadioInit(th) ==
    [mode |-> "OFF", threshold |-> th, transmit_event |-> 0,
     receive_event |-> 0, pending_rx |-> 0,
     tx_hist |-> <<>>, rx_hist |-> <<>>]

\* SharedEvent.reactivate: succeed the held event (queued at now, NORMAL);
\* the caller stores a fresh event identifier in the SharedEvent
reactivate(q, t, kind, id, node, val) ==
    env_schedule(q, Entry(t, NORMAL, kind, id, 0, node, val, ""))

\* ------------------------------------------------------------------ Radio
\* mutant: a packet whose RSSI equals the threshold is dropped
notify_intent_to_deliver_le(rd, packet, t) ==
    IF rd.mode # "RX"
    THEN [ret |-> FALSE,
          rd |-> [rd EXCEPT !.rx_hist =
                     HistAppend(@, PacketEvent("DROPPED_MODE", t, packet))]]
    ELSE IF packet.rssi <= rd.threshold
    THEN [ret |-> FALSE,
          rd |-> [rd EXCEPT !.rx_hist =
                     HistAppend(@, PacketEvent("DROPPED_RSSI", t, packet))]]
    ELSE [ret |-> TRUE, rd |-> rd]

\* mutant: the RSSI is looked at before the mode
notify_intent_to_deliver_rssi_first(rd, packet, t) ==
    IF packet.rssi < rd.threshold
    THEN [ret |-> FALSE,
          rd |-> [rd EXCEPT !.rx_hist =
                     HistAppend(@, PacketEvent("DROPPED_RSSI", t, packet))]]
    ELSE IF rd.mode # "RX"
    THEN [ret |-> FALSE,
          rd |-> [rd EXCEPT !.rx_hist =
                     HistAppend(@, PacketEvent("DROPPED_MODE", t, packet))]]
    ELSE [ret |-> TRUE, rd |-> rd]

\* mutant: only a radio that is OFF refuses, a transmitting one accepts
notify_intent_to_deliver_off_only(rd, packet, t) ==
    IF rd.mode = "OFF"
    THEN [ret |-> FALSE,
          rd |-> [rd EXCEPT !.rx_hist =
                     HistAppend(@, PacketEvent("DROPPED_MODE", t, packet))]]
    ELSE IF packet.rssi < rd.threshold
    THEN [ret |-> FALSE,
          rd |-> [rd EXCEPT !.rx_hist =
                     HistAppend(@, PacketEvent("DROPPED_RSSI", t, packet))]]
    ELSE [ret |-> TRUE, rd |-> rd]

\* Radio.notify_intent_to_deliver: the verdict and the radio afterwards
notify_intent_to_deliver(rd, packet, t) ==
    IF rd.mode # "RX"
    THEN [ret |-> FALSE,
          rd |-> [rd EXCEPT !.rx_hist =
                     HistAppend(@, PacketEvent("DROPPED_MODE", t, packet))]]
    ELSE IF packet.rssi < rd.threshold
    THEN [ret |-> FALSE,
          rd |-> [rd EXCEPT !.rx_hist =
                     HistAppend(@, PacketEvent("DROPPED_RSSI", t, packet))]]
    ELSE [ret |-> TRUE, rd |-> rd]

\* ------------------------------------------------------------------ World
\* what World.communications parks on: any_of the current transmit events
Arm(rad) ==
    [watch |-> [n \in Names |-> rad[n].transmit_event],
     got |-> [n \in Names |-> FALSE],
     val |-> [n \in Names |-> NoPacket],
     cond |-> FALSE]

\* the lookup that builds the recipient list finds its key: "del
\* rx_nodes[tx_packet.src()]" for a broadcast, "self._nodes[tx_packet.dest()]"
\* for any other destination; otherwise it raises KeyError
Known(packet) ==
    IF packet.data_packet.dest = Broadcast
    THEN packet.data_packet.src \in Names
    ELSE packet.data_packet.dest \in Names

\* recipients of a packet whose lookup finds its key, in the order of the
\* node dictionary: a broadcast goes to every node but the one its source
\* field names
rx_nodes(packet) ==
    IF packet.data_packet.dest = Broadcast
    THEN SelectSeq(Nodes, LAMBDA n : n # packet.data_packet.src)
    ELSE <<packet.data_packet.dest>>

\* one record of notifyLog: the radio as notify_intent_to_deliver found it,
\* its verdict, and what the World did next
Attempt(r, rd, packet, t, ret, outcome, tracked) ==
    [radio |-> r, packet |-> packet, time |-> t, mode |-> rd.mode,
     threshold |-> rd.threshold, ret |-> ret, outcome |-> outcome,
     tracked |-> tracked]

\* mutant: a tracker is started for every packet that passes the gate, the
\* live one is never interrupted
Deliver_always_start(S, r, packet, t) ==
    LET n == notify_intent_to_deliver(S.radio[r], packet, t)
    IN  IF ~n.ret
        THEN [S EXCEPT !.radio[r] = n.rd,
                       !.notifyLog = Append(@, Attempt(r, S.radio[r], packet, t,
                                                FALSE, "dropped", NoPacket))]
        ELSE [S EXCEPT
                 !.radio[r] = [n.rd EXCEPT !.pending_rx = S.nextId],
                 !.procs = Spawn(@, S.nextId,
                                 Proc("tracker", r, packet.duration,
                                      packet.data_packet, packet)),
                 !.queue = Initialize(@, t, S.nextId),
                 !.nextId = @ + 1,
                 !.notifyLog = Append(@, Attempt(r, S.radio[r], packet, t,
                                                TRUE, "tracked", NoPacket))]

\* body of "for rx_node in rx_nodes" for one recipient; S bundles the state
\* the loop changes
Deliver(S, r, packet, t) ==
    LET n == notify_intent_to_deliver(S.radio[r], packet, t)
        pending_rx == S.radio[r].pending_rx
    IN  IF ~n.ret
        THEN [S EXCEPT !.radio[r] = n.rd,
                       !.notifyLog = Append(@, Attempt(r, S.radio[r], packet, t,
                                                FALSE, "dropped", NoPacket))]
        ELSE IF pending_rx = 0 \/ ~is_alive(S.procs, pending_rx)
        THEN [S EXCEPT
                 !.radio[r] = [n.rd EXCEPT !.pending_rx = S.nextId],
                 !.procs = Spawn(@, S.nextId,
                                 Proc("tracker", r, packet.duration,
                                      packet.data_packet, packet)),
                 !.queue = Initialize(@, t, S.nextId),
                 !.nextId = @ + 1,
                 !.notifyLog = Append(@, Attempt(r, S.radio[r], packet, t,
                                                TRUE, "tracked", NoPacket))]
        ELSE [S EXCEPT
                 !.radio[r] = n.rd,
                 !.queue = Interruption(@, t, pending_rx, packet, "RadioPacket"),
                 !.notifyLog = Append(@, Attempt(r, S.radio[r], packet, t,
                                          TRUE, "interrupt",
                                          S.procs[pending_rx].pkt))]

RECURSIVE RouteTo(_, _, _, _)
RouteTo(S, rxs, packet, t) ==
    IF rxs = <<>> THEN S
    ELSE RouteTo(Deliver(S, Head(rxs), packet, t), Tail(rxs), packet, t)

\* mutant: a packet for an identifier that names no node is passed over
RECURSIVE RouteAll_skip(_, _, _)
RouteAll_skip(S, packets, t) ==
    IF packets = <<>> THEN S
    ELSE IF ~Known(Head(packets)) THEN RouteAll_skip(S, Tail(packets), t)
    ELSE RouteAll_skip(RouteTo(S, rx_nodes(Head(packets)), Head(packets), t),
                       Tail(packets), t)

\* "for tx_packet in ..." of World.communications; the lookup of a
\* destination that names no node, or the deletion of a broadcast's source
\* that names no node, raises KeyError, which ends the loop and leaves the
\* generator
RECURSIVE RouteAll(_, _, _)
RouteAll(S, packets, t) ==
    IF packets = <<>> THEN S
    ELSE IF ~Known(Head(packets)) THEN [S EXCEPT !.raised = TRUE]
    ELSE RouteAll(RouteTo(S, rx_nodes(Head(packets)), Head(packets), t),
                  Tail(packets), t)

\* the World after its communications process has ended: it watches nothing
Ended ==
    [watch |-> [n \in Names |-> 0], got |-> [n \in Names |-> FALSE],
     val |-> [n \in Names |-> NoPacket], cond |-> FALSE]

\* the ConditionValue the World wakes with: every watched event processed
\* so far, in the order of the node dictionary
tx_packets(w) ==
    LET fired == SelectSeq(Nodes, LAMBDA n : w.got[n])
    IN  [i \in 1..Len(fired) |-> w.val[fired[i]]]

\* --------------------------------------------------------------- Schedule
\* a DataPacket built by a packet constructor: its one field holds what the
\* producer returned
FieldPacket(src, dest, v) == [src |-> src, dest |-> dest, contents |-> ToString(v)]

\* the constructor of test_schedule_increment: lambda: DataPacket(src, dest,
\* fields={"Var": dummy_var}), with the functor's counter
Ctor(src, dest) == [src |-> src, dest |-> dest, var |-> 0]
NoCtor == [src |-> "", dest |-> "", var |-> 0]

\* mutant: a duration equal to the delay is refused too
Schedule_strict(start, duration, delay, num, mode, packet_constructor) ==
    IF duration >= delay \/ (mode = "TX" /\ packet_constructor = NoCtor)
    THEN [ok |-> FALSE]
    ELSE [ok |-> TRUE,
          obj |-> [start |-> start, duration |-> duration, delay |-> delay,
                   num |-> num, mode |-> mode,
                   packet_constructor |-> packet_constructor,
                   state |-> "ACTIVE", current |-> 0]]

\* Schedule.__init__ and __post_init__
Schedule(start, duration, delay, num, mode, packet_constructor) ==
    IF duration > delay \/ (mode = "TX" /\ packet_constructor = NoCtor)
    THEN [ok |-> FALSE]
    ELSE [ok |-> TRUE,
          obj |-> [start |-> start, duration |-> duration, delay |-> delay,
                   num |-> num, mode |-> mode,
                   packet_constructor |-> packet_constructor,
                   state |-> "ACTIVE", current |-> 0]]

\* mutant: the time of the firing after the next one
next_time_ahead(s) ==
    IF s.current < s.num
    THEN [ok |-> TRUE, val |-> s.start + (s.current + 1) * s.delay]
    ELSE [ok |-> FALSE, val |-> 0]

\* Schedule.next_time: the value returned, or ok = FALSE for RuntimeError
next_time(s) ==
    IF s.current < s.num
    THEN [ok |-> TRUE, val |-> s.start + s.current * s.delay]
    ELSE [ok |-> FALSE, val |-> 0]

\* mutant: the schedule is never marked COMPLETE and goes on past num
event_unbounded(s) ==
    LET made == [s.packet_constructor EXCEPT !.var = @ + 1]
    IN  [ok |-> TRUE,
         obj |-> [s EXCEPT !.current = @ + 1,
                           !.packet_constructor =
                               IF s.mode = "TX" THEN made ELSE @],
         packet |-> IF s.mode = "TX"
                    THEN FieldPacket(made.src, made.dest, made.var)
                    ELSE NoData,
         self |-> s.mode = "RX"]

\* mutant: the packet is built once more than it is handed out
event_builds_twice(s) ==
    LET made == [s.packet_constructor EXCEPT !.var = @ + 2]
    IN  IF s.current < s.num
        THEN [ok |-> TRUE,
              obj |-> [s EXCEPT !.current = @ + 1,
                                !.packet_constructor =
                                    IF s.mode = "TX" THEN made ELSE @,
                                !.state = IF s.current + 1 = s.num
                                          THEN "COMPLETE" ELSE @],
              packet |-> IF s.mode = "TX"
                         THEN FieldPacket(made.src, made.dest, made.var)
                         ELSE NoData,
              self |-> s.mode = "RX"]
        ELSE [ok |-> FALSE, obj |-> s, packet |-> NoData, self |-> FALSE]

\* next(schedule.event()): a fresh generator run to its first yield; ok =
\* FALSE for StopIteration.  self says that the Schedule itself is yielded.
event(s) ==
    LET made == [s.packet_constructor EXCEPT !.var = @ + 1]
    IN  IF s.current < s.num
        THEN [ok |-> TRUE,
              obj |-> [s EXCEPT !.current = @ + 1,
                                !.packet_constructor =
                                    IF s.mode = "TX" THEN made ELSE @,
                                !.state = IF s.current + 1 = s.num
                                          THEN "COMPLETE" ELSE @],
              packet |-> IF s.mode = "TX"
                         THEN FieldPacket(made.src, made.dest, made.var)
                         ELSE NoData,
              self |-> s.mode = "RX"]
        ELSE [ok |-> FALSE, obj |-> s, packet |-> NoData, self |-> FALSE]

NoSchedule == [start |-> 0, duration |-> 0, delay |-> 0, num |-> 0,
               mode |-> "OFF", packet_constructor |-> NoCtor,
               state |-> "ACTIVE", current |-> 0]

\* the Schedule under test with the record of the last two calls made on it
Harness(obj) ==
    [obj |-> obj, prev |-> obj, op |-> "new", ok |-> TRUE, time |-> 0,
     packet |-> NoData, self |-> FALSE, op0 |-> "new", time0 |-> 0,
     fires |-> <<>>]

\* -------------------------------------------------------- ScheduleManager
\* ScheduleManager.__init__: the run() process is created, nothing is held
\* yet.  pc is where run() stands: "init" before its first step, "idle" on
\* the awaiting-schedules event, "sleep" on the timeout of line 142, "rx" on
\* the receive process of line 155, "dead" after an exception left it.
Manager(pid, awaiting) ==
    [pc |-> "init", pid |-> pid, schedules |-> <<>>, awaiting |-> awaiting,
     waiting |-> 0, next |-> 0, child |-> 0, handled |-> <<>>,
     fired |-> <<>>, added |-> <<>>]

\* a node whose schedule manager plays no part
NoManager == [Manager(0, 0) EXCEPT !.pc = "none"]

\* mutant: of the schedules that share the earliest time, the last added
next_active_schedule_last(ss) ==
    CHOOSE i \in DOMAIN ss :
        \A j \in DOMAIN ss :
            \/ next_time(ss[i].obj).val < next_time(ss[j].obj).val
            \/ /\ next_time(ss[i].obj).val = next_time(ss[j].obj).val
               /\ i >= j

\* ScheduleManager._next_active_schedule for a non-empty list: the place of
\* min(self._schedules, key=next_time), the first of the minimal ones
next_active_schedule(ss) ==
    CHOOSE i \in DOMAIN ss :
        \A j \in DOMAIN ss :
            \/ next_time(ss[i].obj).val < next_time(ss[j].obj).val
            \/ /\ next_time(ss[i].obj).val = next_time(ss[j].obj).val
               /\ i <= j

\* the dataclass equality of two Schedules: the declared fields; two packet
\* constructors are equal when they are the same function
SameFields(a, b) ==
    /\ a.obj.start = b.obj.start /\ a.obj.duration = b.obj.duration
    /\ a.obj.delay = b.obj.delay /\ a.obj.num = b.obj.num
    /\ a.obj.mode = b.obj.mode
    /\ a.obj.mode = "TX" => a.sid = b.sid

\* list.remove: the first element equal to x goes
remove(ss, x) ==
    LET k == CHOOSE i \in DOMAIN ss :
                 /\ SameFields(ss[i], x)
                 /\ \A j \in 1..(i - 1) : ~SameFields(ss[j], x)
    IN  SubSeq(ss, 1, k - 1) \o SubSeq(ss, k + 1, Len(ss))

\* an exception leaves run(): the process fails, and the failed process
\* event, which nobody defuses, is queued
Raise(m, q, t, nid, n, error) ==
    [m |-> [m EXCEPT !.pc = "dead"],
     queue |-> env_schedule(q, Entry(t, NORMAL, "fail", 0, m.pid, n,
                                     NoPacket, error)),
     nextId |-> nid, alive |-> FALSE, target |-> 0]

\* ScheduleManager.run, lines 140-142: select the next schedule and sleep
\* until it is due; env.timeout raises ValueError for a negative delay,
\* next_time raises RuntimeError for an expired schedule
run_select(m, q, t, nid, n) ==
    IF m.schedules = <<>>
    THEN Raise(m, q, t, nid, n, "AttributeError")
    ELSE IF \E i \in DOMAIN m.schedules : ~next_time(m.schedules[i].obj).ok
    THEN Raise(m, q, t, nid, n, "RuntimeError")
    ELSE LET i == next_active_schedule(m.schedules)
             delay == next_time(m.schedules[i].obj).val - t
         IN  IF delay < 0
             THEN Raise(m, q, t, nid, n, "ValueError")
             ELSE [m |-> [m EXCEPT !.pc = "sleep", !.next = i],
                   queue |-> Timeout(q, t, delay, nid, m.pid),
                   nextId |-> nid + 1, alive |-> TRUE, target |-> nid]

\* ScheduleManager.run from the top of its loop to the next yield
run(m, q, t, nid, n) ==
    IF m.schedules = <<>>
    THEN [m |-> [m EXCEPT !.pc = "idle", !.waiting = m.awaiting],
          queue |-> q, nextId |-> nid, alive |-> TRUE, target |-> 0]
    ELSE run_select(m, q, t, nid, n)

\* mutant: a COMPLETE schedule is left in the list
run_processed_keep(m, q, t, nid, n) ==
    run(m, q, t, nid, n)

\* lines 160-162 and round the loop
run_processed(m, q, t, nid, n) ==
    LET x == m.schedules[m.next]
    IN  run([m EXCEPT !.schedules = IF x.obj.state = "COMPLETE"
                                    THEN remove(@, x) ELSE @],
            q, t, nid, n)

\* the process event of a receive that ended: queued for the manager that
\* waits on it
ProcessEnd(q, t, pid, r, packet) ==
    IF mgr[r].pc = "rx" /\ mgr[r].child = pid
    THEN env_schedule(q, Entry(t, NORMAL, "process", 0, pid, r,
                               RadioPacket(packet, 0, 0), ""))
    ELSE q

\* ------------------------------------------------------------------- Init
\* nothing has been called
NoCall == [op |-> "none"]

\* the network of the tests under a driving process that starts up to ops
\* operations
Network(ops) ==
    /\ now = 0
    /\ queue = <<>>
    /\ nextId = 7
    /\ radio = [n \in Names |->
                  LET k == CHOOSE i \in 1..Len(Nodes) : Nodes[i] = n
                  IN  [RadioInit(DefaultThreshold) EXCEPT
                          !.transmit_event = 2 * k - 1,
                          !.receive_event = 2 * k]]
    /\ procs = [x \in {} |-> Proc("", "", 0, NoData, NoPacket)]
    /\ world = Arm(radio)
    /\ collisions = <<>>
    /\ driver = [active |-> TRUE, ops |-> ops, sleeps |-> MaxSleeps,
                 last |-> 0]
    /\ txLog = <<>>
    /\ rxLog = <<>>
    /\ notifyLog = <<>>

NetInit == Network(MaxOps)

Init ==
    /\ NetInit
    /\ mgr = [n \in Names |-> NoManager]
    /\ halted = FALSE
    /\ sched = Harness(NoSchedule)
    /\ call = NoCall

\* ------------------------------------------------- the driving process
\* A process in the style of the tests' run(): when it runs it may set a
\* radio's RSSI threshold and start transmissions and receptions with
\* env.process(...), then it sleeps on a timeout or ends.  A radio is given
\* one operation at a time, and within one activation the radios are
\* visited in the order of the node list.
Idx(n) == CHOOSE i \in 1..Len(Nodes) : Nodes[i] = n

Idle(r) ==
    \A pid \in DOMAIN procs : procs[pid].radio = r => procs[pid].kind = "tracker"

SetThreshold(r, th) ==
    /\ driver.active /\ driver.ops > 0 /\ Idle(r)
    /\ 2 * Idx(r) - 1 > driver.last
    /\ radio[r].threshold # th
    /\ radio' = [radio EXCEPT ![r].threshold = th]
    /\ driver' = [driver EXCEPT !.ops = @ - 1, !.last = 2 * Idx(r) - 1]
    /\ UNCHANGED <<now, queue, nextId, procs, world, collisions, txLog, rxLog,
                   notifyLog>>
    /\ UNCHANGED schedVars

StartTransmit(r, duration, dest) ==
    /\ driver.active /\ driver.ops > 0 /\ Idle(r)
    /\ 2 * Idx(r) > driver.last
    /\ procs' = Spawn(procs, nextId,
                      Proc("transmit", r, duration, DataPacket(r, dest), NoPacket))
    /\ queue' = Initialize(queue, now, nextId)
    /\ nextId' = nextId + 1
    /\ driver' = [driver EXCEPT !.ops = @ - 1, !.last = 2 * Idx(r)]
    /\ UNCHANGED <<now, radio, world, collisions, txLog, rxLog, notifyLog>>
    /\ UNCHANGED schedVars

StartReceive(r, duration) ==
    /\ driver.active /\ driver.ops > 0 /\ Idle(r)
    /\ 2 * Idx(r) > driver.last
    /\ procs' = Spawn(procs, nextId,
                      Proc("receive", r, duration, NoData, NoPacket))
    /\ queue' = Initialize(queue, now, nextId)
    /\ nextId' = nextId + 1
    /\ driver' = [driver EXCEPT !.ops = @ - 1, !.last = 2 * Idx(r)]
    /\ UNCHANGED <<now, radio, world, collisions, txLog, rxLog, notifyLog>>
    /\ UNCHANGED schedVars

\* transmit() is handed whatever DataPacket its caller built: the source
\* field need not name the node of the radio
StartTransmitAs(r, duration, src, dest) ==
    /\ driver.active /\ driver.ops > 0 /\ Idle(r)
    /\ 2 * Idx(r) > driver.last
    /\ procs' = Spawn(procs, nextId,
                      Proc("transmit", r, duration, DataPacket(src, dest),
                           NoPacket))
    /\ queue' = Initialize(queue, now, nextId)
    /\ nextId' = nextId + 1
    /\ driver' = [driver EXCEPT !.ops = @ - 1, !.last = 2 * Idx(r)]
    /\ UNCHANGED <<now, radio, world, collisions, txLog, rxLog, notifyLog>>
    /\ UNCHANGED schedVars

\* Radio.receive and Radio.transmit do not look whether the radio is busy:
\* a caller may start a receive on a radio that has a receive running, and
\* a transmit on a radio that has a transmit running
ReceiveAgain(r, duration) ==
    /\ driver.active /\ driver.ops > 0
    /\ \E pid \in DOMAIN procs :
          procs[pid].radio = r /\ procs[pid].kind = "receive"
    /\ 2 * Idx(r) >= driver.last
    /\ procs' = Spawn(procs, nextId,
                      Proc("receive", r, duration, NoData, NoPacket))
    /\ queue' = Initialize(queue, now, nextId)
    /\ nextId' = nextId + 1
    /\ driver' = [driver EXCEPT !.ops = @ - 1, !.last = 2 * Idx(r)]
    /\ UNCHANGED <<now, radio, world, collisions, txLog, rxLog, notifyLog>>
    /\ UNCHANGED schedVars

TransmitAgain(r, duration, dest) ==
    /\ driver.active /\ driver.ops > 0
    /\ \E pid \in DOMAIN procs :
          procs[pid].radio = r /\ procs[pid].kind = "transmit"
    /\ 2 * Idx(r) >= driver.last
    /\ procs' = Spawn(procs, nextId,
                      Proc("transmit", r, duration, DataPacket(r, dest), NoPacket))
    /\ queue' = Initialize(queue, now, nextId)
    /\ nextId' = nextId + 1
    /\ driver' = [driver EXCEPT !.ops = @ - 1, !.last = 2 * Idx(r)]
    /\ UNCHANGED <<now, radio, world, collisions, txLog, rxLog, notifyLog>>
    /\ UNCHANGED schedVars

DriverSleep(d) ==
    /\ driver.active /\ driver.sleeps > 0 /\ driver.ops > 0
    /\ queue' = env_schedule(queue,
                    Entry(now + d, NORMAL, "driver", nextId, 0, "", NoPacket, ""))
    /\ nextId' = nextId + 1
    /\ driver' = [driver EXCEPT !.active = FALSE, !.sleeps = @ - 1]
    /\ UNCHANGED <<now, radio, procs, world, collisions, txLog, rxLog, notifyLog>>
    /\ UNCHANGED schedVars

DriverEnd ==
    /\ driver.active
    /\ driver' = [driver EXCEPT !.active = FALSE]
    /\ UNCHANGED <<now, queue, nextId, radio, procs, world, collisions,
                   txLog, rxLog, notifyLog>>
    /\ UNCHANGED schedVars

\* --------------------------------------------------- Environment.step
\* Each action below pops the head of the queue, sets env.now to its time
\* and runs the callbacks of that event up to the next yield.
Ready == ~driver.active /\ ~halted /\ queue # <<>>
ev == Head(queue)
rest == Tail(queue)

DriverWake ==
    /\ Ready /\ ev.kind = "driver"
    /\ now' = ev.time
    /\ queue' = rest
    /\ driver' = [driver EXCEPT !.active = TRUE, !.last = 0]
    /\ UNCHANGED <<nextId, radio, procs, world, collisions, txLog, rxLog,
                   notifyLog>>
    /\ UNCHANGED schedVars

Starts(kind) ==
    Ready /\ ev.kind = "init" /\ procs[ev.pid].kind = kind
Resumes(kind) ==
    /\ Ready /\ ev.kind = "timeout" /\ is_alive(procs, ev.pid)
    /\ procs[ev.pid].kind = kind /\ procs[ev.pid].target = ev.id

\* Radio.transmit up to its yield
TransmitBegin ==
    /\ Starts("transmit")
    /\ LET p == procs[ev.pid]
           r == p.radio
           tx_packet == RadioPacket(p.data, p.duration, TxRssi)
           routed == reactivate(rest, ev.time, "transmit_event",
                                radio[r].transmit_event, r, tx_packet)
       IN  /\ radio' = [radio EXCEPT ![r].mode = "TX",
                                     ![r].transmit_event = nextId]
           /\ txLog' = Append(txLog, [radio |-> r, packet |-> tx_packet,
                                      time |-> ev.time])
           /\ IF p.duration >= 0
              THEN /\ queue' = Timeout(routed, ev.time, p.duration,
                                       nextId + 1, ev.pid)
                   /\ procs' = [procs EXCEPT ![ev.pid].pkt = tx_packet,
                                             ![ev.pid].target = nextId + 1]
                   /\ nextId' = nextId + 2
              \* env.timeout raises ValueError for a negative delay: the
              \* process fails with the packet handed over and the mode
              \* left at TX
              ELSE /\ queue' = env_schedule(routed,
                                   Entry(ev.time, NORMAL, "fail", 0, ev.pid, r,
                                         NoPacket, "ValueError"))
                   /\ procs' = Kill(procs, ev.pid)
                   /\ nextId' = nextId + 1
    /\ now' = ev.time
    /\ UNCHANGED <<world, collisions, driver, rxLog, notifyLog>>
    /\ UNCHANGED schedVars

\* mutant: the transmission ends without an entry in the TX history
TransmitEnd_silent ==
    /\ Resumes("transmit")
    /\ radio' = [radio EXCEPT ![procs[ev.pid].radio].mode = "OFF"]
    /\ procs' = Kill(procs, ev.pid)
    /\ now' = ev.time
    /\ queue' = rest
    /\ UNCHANGED <<nextId, world, collisions, driver, txLog, rxLog, notifyLog>>
    /\ UNCHANGED schedVars

\* Radio.transmit after its yield
TransmitEnd ==
    /\ Resumes("transmit")
    /\ LET p == procs[ev.pid]
       IN  radio' = [radio EXCEPT
               ![p.radio].mode = "OFF",
               ![p.radio].tx_hist =
                   HistAppend(@, PacketEvent("SUCCESS", ev.time, p.pkt))]
    /\ procs' = Kill(procs, ev.pid)
    /\ now' = ev.time
    /\ queue' = rest
    /\ UNCHANGED <<nextId, world, collisions, driver, txLog, rxLog, notifyLog>>
    /\ UNCHANGED schedVars

\* for the record: when the receive of process pid returned, with what, and
\* how long the radio's reception history was by then
Returned(log, pid, t, packet, hist) ==
    [k \in DOMAIN log |->
        IF log[k].pid = pid
        THEN [log[k] EXCEPT !.done = TRUE, !.at = t, !.ret = packet,
                            !.upto = Len(hist)]
        ELSE log[k]]

\* Radio.receive up to its first yield, or to its return when the window
\* has no length
ReceiveBegin ==
    /\ Starts("receive")
    /\ LET p == procs[ev.pid]
           r == p.radio
           end_time == ev.time + p.duration
           window == [radio |-> r, start |-> ev.time, end |-> end_time,
                      threshold |-> radio[r].threshold,
                      pid |-> ev.pid, done |-> FALSE,
                      at |-> 0, ret |-> NoData,
                      seen |-> Len(radio[r].rx_hist),
                      upto |-> 0]
       IN  IF ev.time < end_time
           THEN /\ radio' = [radio EXCEPT ![r].mode = "RX"]
                /\ queue' = Timeout(rest, ev.time, end_time - ev.time, nextId,
                                    ev.pid)
                /\ procs' = [procs EXCEPT
                        ![ev.pid].end_time = end_time,
                        ![ev.pid].receiving = radio[r].receive_event,
                        ![ev.pid].target = nextId]
                /\ rxLog' = Append(rxLog, window)
                /\ nextId' = nextId + 1
           \* "while self._env.now < end_time" is false at once: the mode
           \* goes to RX and back to OFF and None is returned in this step
           ELSE /\ radio' = [radio EXCEPT ![r].mode = "OFF"]
                /\ queue' = ProcessEnd(rest, ev.time, ev.pid, r, NoData)
                /\ procs' = Kill(procs, ev.pid)
                /\ rxLog' = Returned(Append(rxLog, window), ev.pid, ev.time,
                                     NoData, radio[r].rx_hist)
                /\ nextId' = nextId
    /\ now' = ev.time
    /\ UNCHANGED <<world, collisions, driver, txLog, notifyLog>>
    /\ UNCHANGED schedVars

\* Condition._check of the receive's any_of: the first of its two events to
\* be processed queues the condition itself
Check(q, p, pid, t) ==
    IF p.cond THEN q
    ELSE env_schedule(q, Entry(t, NORMAL, "condition", 0, pid, "", NoPacket, ""))

\* the "listening" timeout of Radio.receive is processed
ReceiveListen ==
    /\ Resumes("receive")
    /\ queue' = Check(rest, procs[ev.pid], ev.pid, ev.time)
    /\ procs' = [procs EXCEPT ![ev.pid].cond = TRUE]
    /\ now' = ev.time
    /\ UNCHANGED <<nextId, radio, world, collisions, driver, txLog, rxLog,
                   notifyLog>>
    /\ UNCHANGED schedVars

Receiver(e) ==
    {pid \in DOMAIN procs : /\ procs[pid].kind = "receive"
                            /\ procs[pid].radio = e.node
                            /\ procs[pid].receiving = e.id}

\* the callbacks of an event run in the order in which they were added:
\* the any_of of the receive that parked first is checked first.  A receive
\* creates its "listening" timeout as it parks, so the identifiers of the
\* timeouts give the order.
First(ps, pids) ==
    CHOOSE x \in pids : \A y \in pids : ps[x].target <= ps[y].target
RECURSIVE CheckAll(_, _, _, _)
CheckAll(q, ps, pids, t) ==
    IF pids = {} THEN q
    ELSE LET pid == First(ps, pids)
         IN  CheckAll(Check(q, ps[pid], pid, t), ps, pids \ {pid}, t)

\* mutant: only the receive that parked first is woken
ReceiveEvent_first ==
    /\ Ready /\ ev.kind = "receive_event" /\ Receiver(ev) # {}
    /\ LET pid == First(procs, Receiver(ev))
       IN  /\ queue' = Check(rest, procs[pid], pid, ev.time)
           /\ procs' = [procs EXCEPT ![pid].cond = TRUE,
                                     ![pid].gotRecv = TRUE,
                                     ![pid].gotVal = ev.val]
    /\ now' = ev.time
    /\ UNCHANGED <<nextId, radio, world, collisions, driver, txLog, rxLog,
                   notifyLog>>
    /\ UNCHANGED schedVars

\* the "receiving" event (the radio's receive-event) is processed: every
\* receive parked on it is woken with its value
ReceiveEvent ==
    /\ Ready /\ ev.kind = "receive_event" /\ Receiver(ev) # {}
    /\ queue' = CheckAll(rest, procs, Receiver(ev), ev.time)
    /\ procs' = [pid \in DOMAIN procs |->
                    IF pid \in Receiver(ev)
                    THEN [procs[pid] EXCEPT !.cond = TRUE,
                                            !.gotRecv = TRUE,
                                            !.gotVal = ev.val]
                    ELSE procs[pid]]
    /\ now' = ev.time
    /\ UNCHANGED <<nextId, radio, world, collisions, driver, txLog, rxLog,
                   notifyLog>>
    /\ UNCHANGED schedVars

\* a receive that returns as soon as it has a packet
ReceiveResume_early ==
    /\ Ready /\ ev.kind = "condition"
    /\ LET p == procs[ev.pid]
           r == p.radio
           pending_rx == radio[r].pending_rx
           stop == ~p.gotRecv /\ pending_rx # 0 /\ is_alive(procs, pending_rx)
           q1 == IF stop
                 THEN Interruption(rest, ev.time, pending_rx, NoPacket,
                                   LeftRxCause)
                 ELSE rest
           hist == IF p.gotRecv
                   THEN HistAppend(radio[r].rx_hist,
                                   PacketEvent("SUCCESS", ev.time, p.gotVal))
                   ELSE radio[r].rx_hist
           packet == IF p.gotRecv THEN p.gotVal.data_packet ELSE p.packet
       IN  IF ev.time < p.end_time /\ ~p.gotRecv
           THEN /\ radio' = [radio EXCEPT ![r].rx_hist = hist]
                /\ queue' = Timeout(q1, ev.time, p.end_time - ev.time,
                                    nextId, ev.pid)
                /\ procs' = [procs EXCEPT
                        ![ev.pid].packet = packet,
                        ![ev.pid].receiving = radio[r].receive_event,
                        ![ev.pid].target = nextId,
                        ![ev.pid].cond = FALSE,
                        ![ev.pid].gotRecv = FALSE,
                        ![ev.pid].gotVal = NoPacket]
                /\ nextId' = nextId + 1
                /\ rxLog' = rxLog
           ELSE /\ radio' = [radio EXCEPT ![r].rx_hist = hist,
                                          ![r].mode = "OFF"]
                /\ queue' = ProcessEnd(q1, ev.time, ev.pid, r, packet)
                /\ procs' = Kill(procs, ev.pid)
                /\ nextId' = nextId
                /\ rxLog' = Returned(rxLog, ev.pid, ev.time, packet, hist)
    /\ now' = ev.time
    /\ UNCHANGED <<world, collisions, driver, txLog, notifyLog>>
    /\ UNCHANGED schedVars

\* Radio.receive from the return of its any_of to the next yield or the end
ReceiveResume ==
    /\ Ready /\ ev.kind = "condition"
    /\ LET p == procs[ev.pid]
           r == p.radio
           pending_rx == radio[r].pending_rx
           stop == ~p.gotRecv /\ pending_rx # 0 /\ is_alive(procs, pending_rx)
           q1 == IF stop
                 THEN Interruption(rest, ev.time, pending_rx, NoPacket,
                                   LeftRxCause)
                 ELSE rest
           hist == IF p.gotRecv
                   THEN HistAppend(radio[r].rx_hist,
                                   PacketEvent("SUCCESS", ev.time, p.gotVal))
                   ELSE radio[r].rx_hist
           packet == IF p.gotRecv THEN p.gotVal.data_packet ELSE p.packet
       IN  IF ev.time < p.end_time
           THEN /\ radio' = [radio EXCEPT ![r].rx_hist = hist]
                /\ queue' = Timeout(q1, ev.time, p.end_time - ev.time,
                                    nextId, ev.pid)
                /\ procs' = [procs EXCEPT
                        ![ev.pid].packet = packet,
                        ![ev.pid].receiving = radio[r].receive_event,
                        ![ev.pid].target = nextId,
                        ![ev.pid].cond = FALSE,
                        ![ev.pid].gotRecv = FALSE,
                        ![ev.pid].gotVal = NoPacket]
                /\ nextId' = nextId + 1
                /\ rxLog' = rxLog
           ELSE /\ radio' = [radio EXCEPT ![r].rx_hist = hist,
                                          ![r].mode = "OFF"]
                /\ queue' = ProcessEnd(q1, ev.time, ev.pid, r, packet)
                /\ procs' = Kill(procs, ev.pid)
                /\ nextId' = nextId
                /\ rxLog' = Returned(rxLog, ev.pid, ev.time, packet, hist)
    /\ now' = ev.time
    /\ UNCHANGED <<world, collisions, driver, txLog, notifyLog>>
    /\ UNCHANGED schedVars

\* World.pending_transmit up to its first yield
TrackerBegin ==
    /\ Starts("tracker")
    /\ LET p == procs[ev.pid]
           end_time == ev.time + p.pkt.duration
       IN  IF ev.time < end_time
           THEN /\ queue' = Timeout(rest, ev.time, end_time - ev.time,
                                    nextId, ev.pid)
                /\ procs' = [procs EXCEPT ![ev.pid].end_time = end_time,
                                          ![ev.pid].target = nextId]
                /\ radio' = radio
                /\ nextId' = nextId + 1
           ELSE /\ queue' = reactivate(rest, ev.time, "receive_event",
                                 radio[p.radio].receive_event, p.radio, p.pkt)
                /\ radio' = [radio EXCEPT ![p.radio].receive_event = nextId]
                /\ procs' = Kill(procs, ev.pid)
                /\ nextId' = nextId + 1
    /\ now' = ev.time
    /\ UNCHANGED <<world, collisions, driver, txLog, rxLog, notifyLog>>
    /\ UNCHANGED schedVars

\* mutant: the packet is handed over whether or not a collision was flagged
TrackerContinue_ignore_collision(p, pid, t, q) ==
    IF t < p.end_time
    THEN /\ queue' = Timeout(q, t, p.end_time - t, nextId, pid)
         /\ procs' = [procs EXCEPT ![pid] = [p EXCEPT !.target = nextId]]
         /\ radio' = radio
         /\ nextId' = nextId + 1
    ELSE /\ procs' = Kill(procs, pid)
         /\ queue' = reactivate(q, t, "receive_event",
                                radio[p.radio].receive_event, p.radio, p.pkt)
         /\ radio' = [radio EXCEPT ![p.radio].receive_event = nextId]
         /\ nextId' = nextId + 1

\* World.pending_transmit from a resumption to its next yield or its end:
\* leave the loop when the airtime is over, hand the packet over unless a
\* collision was flagged
TrackerContinue(p, pid, t, q) ==
    IF t < p.end_time
    THEN /\ queue' = Timeout(q, t, p.end_time - t, nextId, pid)
         /\ procs' = [procs EXCEPT ![pid] = [p EXCEPT !.target = nextId]]
         /\ radio' = radio
         /\ nextId' = nextId + 1
    ELSE /\ procs' = Kill(procs, pid)
         /\ IF p.collision
            THEN /\ queue' = q
                 /\ radio' = radio
                 /\ nextId' = nextId
            ELSE /\ queue' = reactivate(q, t, "receive_event",
                                 radio[p.radio].receive_event, p.radio, p.pkt)
                 /\ radio' = [radio EXCEPT ![p.radio].receive_event = nextId]
                 /\ nextId' = nextId + 1

\* the tracker's timeout is processed
TrackerTimeout ==
    /\ Resumes("tracker")
    /\ TrackerContinue(procs[ev.pid], ev.pid, ev.time, rest)
    /\ now' = ev.time
    /\ UNCHANGED <<world, collisions, driver, txLog, rxLog, notifyLog>>
    /\ UNCHANGED schedVars

\* mutant: an interrupting packet that stays on air longer extends the
\* tracker's end
TrackerInterrupt_extend ==
    /\ Ready /\ ev.kind = "interrupt" /\ is_alive(procs, ev.pid)
    /\ procs[ev.pid].kind = "tracker"
    /\ LET p == procs[ev.pid]
           later == IF ev.cause = "RadioPacket"
                       /\ ev.time + ev.val.duration > p.end_time
                    THEN ev.time + ev.val.duration ELSE p.end_time
       IN  /\ collisions' =
                 IF ev.cause = "RadioPacket"
                 THEN HistAppend(collisions,
                                 CollisionEvent(ev.time, ev.val, p.pkt))
                 ELSE collisions
           /\ TrackerContinue([p EXCEPT !.collision = TRUE,
                                        !.end_time = later], ev.pid, ev.time,
                              rest)
    /\ now' = ev.time
    /\ UNCHANGED <<world, driver, txLog, rxLog, notifyLog>>
    /\ UNCHANGED schedVars

\* mutant: only an interrupting packet spoils the delivery
TrackerInterrupt_packets_only ==
    /\ Ready /\ ev.kind = "interrupt" /\ is_alive(procs, ev.pid)
    /\ procs[ev.pid].kind = "tracker"
    /\ LET p == procs[ev.pid]
       IN  /\ collisions' =
                 IF ev.cause = "RadioPacket"
                 THEN HistAppend(collisions,
                                 CollisionEvent(ev.time, ev.val, p.pkt))
                 ELSE collisions
           /\ TrackerContinue([p EXCEPT !.collision =
                                           @ \/ ev.cause = "RadioPacket"],
                              ev.pid, ev.time, rest)
    /\ now' = ev.time
    /\ UNCHANGED <<world, driver, txLog, rxLog, notifyLog>>
    /\ UNCHANGED schedVars

\* an Interruption is processed: simpy.Interrupt is thrown into the tracker
TrackerInterrupt ==
    /\ Ready /\ ev.kind = "interrupt" /\ is_alive(procs, ev.pid)
    /\ procs[ev.pid].kind = "tracker"
    /\ LET p == procs[ev.pid]
       IN  /\ collisions' =
                 IF ev.cause = "RadioPacket"
                 THEN HistAppend(collisions,
                                 CollisionEvent(ev.time, ev.val, p.pkt))
                 ELSE collisions
           /\ TrackerContinue([p EXCEPT !.collision = TRUE], ev.pid, ev.time,
                              rest)
    /\ now' = ev.time
    /\ UNCHANGED <<world, driver, txLog, rxLog, notifyLog>>
    /\ UNCHANGED schedVars

\* a transmit-event watched by the World is processed: Condition._check of
\* the World's any_of
WorldEvent ==
    /\ Ready /\ ev.kind = "transmit_event" /\ world.watch[ev.node] = ev.id
    /\ world' = [world EXCEPT !.got[ev.node] = TRUE, !.val[ev.node] = ev.val,
                              !.cond = TRUE]
    /\ queue' = IF world.cond THEN rest
                ELSE env_schedule(rest, Entry(ev.time, NORMAL, "any_of", 0, 0,
                                              "", NoPacket, ""))
    /\ now' = ev.time
    /\ UNCHANGED <<nextId, radio, procs, collisions, driver, txLog, rxLog,
                   notifyLog>>
    /\ UNCHANGED schedVars

\* World.communications from the return of its any_of round the loop to the
\* next any_of
communications ==
    /\ Ready /\ ev.kind = "any_of"
    /\ LET S == RouteAll([radio |-> radio, procs |-> procs, queue |-> rest,
                          nextId |-> nextId, notifyLog |-> notifyLog,
                          raised |-> FALSE],
                         tx_packets(world), ev.time)
       IN  /\ radio' = S.radio
           /\ procs' = S.procs
           /\ queue' = IF S.raised
                       THEN env_schedule(S.queue,
                                Entry(ev.time, NORMAL, "fail", 0, 0, "",
                                      NoPacket, "KeyError"))
                       ELSE S.queue
           /\ nextId' = S.nextId
           /\ notifyLog' = S.notifyLog
           /\ world' = IF S.raised THEN Ended ELSE Arm(S.radio)
    /\ now' = ev.time
    /\ UNCHANGED <<collisions, driver, txLog, rxLog>>
    /\ UNCHANGED schedVars

\* the manager of the event's node is suspended on the receive process
\* that ended (ScheduleManager.py 154-156)
Waits(e) ==
    /\ is_alive(procs, mgr[e.node].pid)
    /\ mgr[e.node].pc = "rx"
    /\ mgr[e.node].child = e.pid

\* an event nobody waits for any more is processed: a timeout whose process
\* was interrupted or went round its loop, an event that was triggered after
\* its waiter had stopped watching it, an interrupt of a finished process
Stale ==
    /\ Ready
    /\ \/ ev.kind = "timeout" /\ ~(is_alive(procs, ev.pid)
                                      /\ procs[ev.pid].target = ev.id)
       \/ ev.kind = "receive_event" /\ Receiver(ev) = {}
       \/ ev.kind = "transmit_event" /\ world.watch[ev.node] # ev.id
       \/ ev.kind = "interrupt" /\ ~is_alive(procs, ev.pid)
       \/ ev.kind = "process" /\ ~Waits(ev)
    /\ now' = ev.time
    /\ queue' = rest
    /\ UNCHANGED <<nextId, radio, procs, world, collisions, driver, txLog,
                   rxLog, notifyLog>>
    /\ UNCHANGED schedVars

Dests == Names \cup {Broadcast}

Next ==
    \/ \E r \in Names, th \in Thresholds : SetThreshold(r, th)
    \/ \E r \in Names, d \in 1..MaxDur, dest \in Dests :
          StartTransmit(r, d, dest)
    \/ \E r \in Names, d \in 1..(MaxDur + 1) : StartReceive(r, d)
    \/ \E d \in 1..MaxGap : DriverSleep(d)
    \/ DriverEnd
    \/ DriverWake
    \/ TransmitBegin
    \/ TransmitEnd
    \/ ReceiveBegin
    \/ ReceiveListen
    \/ ReceiveEvent
    \/ ReceiveResume
    \/ TrackerBegin
    \/ TrackerTimeout
    \/ TrackerInterrupt
    \/ WorldEvent
    \/ communications
    \/ Stale

Spec == Init /\ [][Next]_vars

\* ------------------------------------- one listener and two talkers
\* the scene of test_collision with listening windows of every length
\* from none to longer than a packet: A listens, B and C transmit to A, and
\* the driver has one more operation so that a radio can transmit again
\* once its first transmission is over
Listener == "A"
Talkers == {"B", "C"}
InitWindow ==
    /\ Network(MaxOps + 1)
    /\ mgr = [n \in Names |-> NoManager]
    /\ halted = FALSE
    /\ sched = Harness(NoSchedule)
    /\ call = NoCall

NextWindow ==
    \/ \E d \in 0..(MaxDur + 2) : StartReceive(Listener, d)
    \/ \E r \in Talkers, d \in 1..MaxDur : StartTransmit(r, d, Listener)
    \/ \E d \in 1..MaxGap : DriverSleep(d)
    \/ DriverEnd
    \/ DriverWake
    \/ TransmitBegin
    \/ TransmitEnd
    \/ ReceiveBegin
    \/ ReceiveListen
    \/ ReceiveEvent
    \/ ReceiveResume
    \/ TrackerBegin
    \/ TrackerTimeout
    \/ TrackerInterrupt
    \/ WorldEvent
    \/ communications
    \/ Stale

SpecWindow == InitWindow /\ [][NextWindow]_vars

\* ------------------------------------------- more than one task per radio
\* the same scene, with a driving process that may also start a receive on
\* the listener while a receive of it is running (both park on the one
\* receive-event) and a transmit on a talker while a transmit of it is
\* running (one transmit-event reactivated twice in a tick)
NextShared ==
    \/ \E d \in 1..(MaxDur + 1) : ReceiveAgain(Listener, d)
    \/ \E r \in Talkers, d \in 1..MaxDur : TransmitAgain(r, d, Listener)
    \/ NextWindow

SpecShared == InitWindow /\ [][NextShared]_vars

\* ------------------------------------------ a Schedule driven on its own
\* test_schedule_increment: a Schedule is built and its methods are called
SchedModes == {"TX", "RX", "OFF"}
Schedules ==
    {Schedule(start, duration, delay, num, mode,
              IF mode = "TX" THEN Ctor("A", "B") ELSE NoCtor) :
        start \in 0..MaxStart, duration \in 1..MaxDur, delay \in 1..MaxDur,
        num \in 0..MaxNum, mode \in SchedModes}

InitSchedule ==
    /\ NetInit
    /\ mgr = [n \in Names |-> NoManager]
    /\ halted = FALSE
    /\ sched \in {Harness(c.obj) : c \in {x \in Schedules : x.ok}}
    /\ call = NoCall

\* sched.next_time(), or assertRaises(RuntimeError, sched.next_time)
SchedNextTime ==
    /\ LET r == next_time(sched.obj)
       IN  sched' = [sched EXCEPT !.prev = sched.obj, !.op = "next_time",
                                  !.ok = r.ok, !.time = r.val,
                                  !.packet = NoData, !.self = FALSE,
                                  !.op0 = sched.op, !.time0 = sched.time]
    /\ UNCHANGED <<now, queue, nextId, radio, procs, world, collisions,
                   driver, txLog, rxLog, notifyLog, mgr, halted, call>>

\* next(sched.event()) at the time next_time() gave
SchedEvent ==
    /\ LET r == event(sched.obj)
           t == next_time(sched.obj)
       IN  sched' = [sched EXCEPT
                        !.obj = r.obj, !.prev = sched.obj, !.op = "event",
                        !.ok = r.ok, !.time = 0, !.packet = r.packet,
                        !.self = r.self, !.op0 = sched.op,
                        !.time0 = sched.time,
                        !.fires = IF r.ok
                                  THEN Append(@, [time |-> t.val,
                                                  packet |-> r.packet])
                                  ELSE @]
    /\ UNCHANGED <<now, queue, nextId, radio, procs, world, collisions,
                   driver, txLog, rxLog, notifyLog, mgr, halted, call>>

NextSchedule == SchedNextTime \/ SchedEvent

SpecSchedule == InitSchedule /\ [][NextSchedule]_vars

\* ------------------------- constructors and comparisons called directly
\* As the unit tests do: an object is constructed, or two are compared, and
\* the outcome is looked at.
FieldNames == <<"Var", "Aux">>
Cells == {"f", "g"}
CellStates == [Cells -> 0..MaxVal]
\* the dicts of at most two entries whose values are drawn from V
Dicts(V) ==
    {<<>>} \cup
    {<<[name |-> FieldNames[i]] @@ v>> : i \in DOMAIN FieldNames, v \in V} \cup
    {m \in {<<[name |-> FieldNames[i]] @@ v, [name |-> FieldNames[j]] @@ w>> :
                i \in DOMAIN FieldNames, j \in DOMAIN FieldNames,
                v \in V, w \in V} :
        m[1].name # m[2].name}
FieldMaps == {None} \cup {Mapping(m) : m \in Dicts({[cell |-> c] : c \in Cells})}
ContentMaps ==
    {None} \cup {Mapping(m) : m \in Dicts({[val |-> v] : v \in 1..(MaxVal + 1)})}
OnAir == {RadioPacket(DataPacket("A", "B"), 1, TxRssi),
          RadioPacket(DataPacket("B", "A"), 1, TxRssi),
          RadioPacket(DataPacket("C", Broadcast), 2, TxRssi)}

InitData ==
    /\ NetInit
    /\ mgr = [n \in Names |-> NoManager]
    /\ halted = FALSE
    /\ sched = Harness(NoSchedule)
    /\ call = NoCall

\* Schedule(start, duration, delay, num, mode[, packet_constructor])
CallSchedule(start, duration, delay, num, mode, packet_constructor) ==
    /\ call' = [op |-> "Schedule", start |-> start, duration |-> duration,
                delay |-> delay, num |-> num, mode |-> mode,
                packet_constructor |-> packet_constructor,
                res |-> Schedule(start, duration, delay, num, mode,
                                 packet_constructor)]
    /\ UNCHANGED <<now, queue, nextId, radio, procs, world, collisions,
                   driver, txLog, rxLog, notifyLog, mgr, halted, sched>>

\* DataPacket(src, dest[, fields][, contents])
CallDataPacket(src, dest, fields, contents, cells) ==
    /\ call' = [op |-> "DataPacket", src |-> src, dest |-> dest,
                fields |-> fields, contents |-> contents, before |-> cells,
                res |-> DataPacket_init(src, dest, fields, contents, cells),
                cells |-> DataPacket_init(src, dest, fields, contents,
                                          cells).cells,
                later |-> 0]
    /\ UNCHANGED <<now, queue, nextId, radio, procs, world, collisions,
                   driver, txLog, rxLog, notifyLog, mgr, halted, sched>>

\* a producer is called again after the packet was built
CallProducer(c) ==
    /\ call.op = "DataPacket" /\ call.later < MaxVal
    /\ call' = [call EXCEPT !.cells[c] = @ + 1, !.later = @ + 1]
    /\ UNCHANGED <<now, queue, nextId, radio, procs, world, collisions,
                   driver, txLog, rxLog, notifyLog, mgr, halted, sched>>

\* CollisionEvent(...) == CollisionEvent(...)
CallCollisionEq(t, a, b, u, c, d) ==
    /\ call' = [op |-> "CollisionEvent.__eq__",
                x |-> CollisionEvent(t, a, b), y |-> CollisionEvent(u, c, d),
                res |-> CollisionEvent_eq(CollisionEvent(t, a, b),
                                          CollisionEvent(u, c, d))]
    /\ UNCHANGED <<now, queue, nextId, radio, procs, world, collisions,
                   driver, txLog, rxLog, notifyLog, mgr, halted, sched>>

NextData ==
    \/ \E start \in 0..MaxStart, duration \in 1..MaxDur, delay \in 1..MaxDur,
          num \in 0..MaxNum, mode \in SchedModes,
          packet_constructor \in {NoCtor, Ctor("A", "B")} :
          CallSchedule(start, duration, delay, num, mode, packet_constructor)
    \/ \E fields \in FieldMaps, contents \in ContentMaps,
          cells \in CellStates :
          CallDataPacket("A", "B", fields, contents, cells)
    \/ \E c \in Cells : CallProducer(c)
    \/ \E t \in 0..MaxGap, u \in 0..MaxGap, a \in OnAir, b \in OnAir,
          c \in OnAir, d \in OnAir : CallCollisionEq(t, a, b, u, c, d)

SpecData == InitData /\ [][NextData]_vars

\* --------------------------------- Protocols with their ScheduleManagers
\* Every Node has a Radio and a Protocol, whose ScheduleManager is wired to
\* that Radio (Node.__init__, Protocol.__init__), and the Nodes stand in one
\* World; schedules are added before env.run() or by a process while it
\* runs.
ManagerPid(n) == 6 + Idx(n)
AwaitingId(n) == 9 + Idx(n)

\* the three Nodes with their managers in the World, under a driving
\* process that adds up to ops schedules
Managers(ops) ==
    /\ now = 0
    /\ nextId = 13
    /\ radio = [n \in Names |->
                  [RadioInit(DefaultThreshold) EXCEPT
                      !.transmit_event = 2 * Idx(n) - 1,
                      !.receive_event = 2 * Idx(n)]]
    /\ procs = [x \in {ManagerPid(n) : n \in Names} |->
                  Proc("manager", Nodes[x - 6], 0, NoData, NoPacket)]
    /\ queue = [i \in 1..Len(Nodes) |->
                  Entry(0, URGENT, "init", 0, 6 + i, "", NoPacket, "")]
    /\ world = Arm(radio)
    /\ collisions = <<>>
    /\ driver = [active |-> TRUE, ops |-> ops, sleeps |-> MaxSleeps,
                 last |-> 0]
    /\ txLog = <<>>
    /\ rxLog = <<>>
    /\ notifyLog = <<>>
    /\ mgr = [n \in Names |-> Manager(ManagerPid(n), AwaitingId(n))]
    /\ halted = FALSE
    /\ sched = Harness(NoSchedule)
    /\ call = NoCall

InitManager == Managers(MaxAdds)

\* what run() leaves behind in the process table
Yielded(R, ps, pid) ==
    IF R.alive THEN [ps EXCEPT ![pid].target = R.target] ELSE Kill(ps, pid)

\* ScheduleManager.add, called by the program before env.run() or by the
\* driving process
AddSchedule(n, start, duration, delay, num, mode) ==
    /\ driver.active /\ driver.ops > 0
    /\ LET m == mgr[n]
           new == Schedule(start, duration, delay, num, mode,
                           IF mode = "TX" THEN Ctor(n, Broadcast) ELSE NoCtor)
           sid == Len(m.added) + 1
           was_awaiting_schedules == m.schedules = <<>>
           \* for the record: what the manager is sleeping for
           ahead == IF m.pc = "sleep"
                    THEN [sid |-> m.schedules[m.next].sid,
                          due |-> next_time(m.schedules[m.next].obj).val]
                    ELSE [sid |-> 0, due |-> 0]
           q1 == Interruption(queue, now, m.pid, NoPacket, "")
       IN  /\ new.ok
           /\ IF is_alive(procs, m.pid)
              THEN /\ mgr' = [mgr EXCEPT
                         ![n].schedules = Append(@, [sid |-> sid,
                                                     obj |-> new.obj]),
                         ![n].added = Append(@, [sid |-> sid, time |-> now,
                                                 obj |-> new.obj, pc |-> m.pc,
                                                 ahead |-> ahead]),
                         ![n].awaiting = IF was_awaiting_schedules
                                         THEN nextId ELSE @]
                   /\ queue' = IF was_awaiting_schedules
                               THEN reactivate(q1, now, "awaiting_event",
                                               m.awaiting, n, NoPacket)
                               ELSE q1
                   /\ nextId' = IF was_awaiting_schedules
                                THEN nextId + 1 ELSE nextId
                   /\ driver' = [driver EXCEPT !.ops = @ - 1]
              \* the schedule is appended (line 95), then interrupt() of a
              \* process that has ended raises RuntimeError in the caller:
              \* the rest of add() is not run and the calling process fails
              ELSE /\ mgr' = [mgr EXCEPT
                         ![n].schedules = Append(@, [sid |-> sid,
                                                     obj |-> new.obj]),
                         ![n].added = Append(@, [sid |-> sid, time |-> now,
                                                 obj |-> new.obj, pc |-> m.pc,
                                                 ahead |-> ahead])]
                   /\ queue' = env_schedule(queue,
                                   Entry(now, NORMAL, "fail", 0, 0, "",
                                         NoPacket, "RuntimeError"))
                   /\ nextId' = nextId
                   /\ driver' = [driver EXCEPT !.active = FALSE, !.ops = @ - 1]
    /\ UNCHANGED <<now, radio, procs, world, collisions, txLog, rxLog,
                   notifyLog, halted, sched, call>>

\* run() up to its first yield
ManagerBegin ==
    /\ Starts("manager")
    /\ LET n == procs[ev.pid].radio
           R == run(mgr[n], rest, ev.time, nextId, n)
       IN  /\ mgr' = [mgr EXCEPT ![n] = R.m]
           /\ queue' = R.queue
           /\ nextId' = R.nextId
           /\ procs' = Yielded(R, procs, ev.pid)
    /\ now' = ev.time
    /\ UNCHANGED <<radio, world, collisions, driver, txLog, rxLog, notifyLog,
                   halted, sched, call>>

\* the timeout of line 142 is processed: lines 149-162 and round the loop to
\* the next yield
ManagerTimeout ==
    /\ Resumes("manager")
    /\ LET n == procs[ev.pid].radio
           m == mgr[n]
           next_schedule == m.schedules[m.next]
           due == next_time(next_schedule.obj)
           e == event(next_schedule.obj)
           m1 == [m EXCEPT
                    !.schedules[m.next].obj = e.obj,
                    !.fired = Append(@, [sid |-> next_schedule.sid,
                                         mode |-> next_schedule.obj.mode,
                                         time |-> ev.time,
                                         due |-> due.val])]
           q1 == Initialize(rest, ev.time, nextId)
       IN  IF ~due.ok
           THEN LET R == Raise(m, rest, ev.time, nextId, n, "RuntimeError")
                IN  /\ mgr' = [mgr EXCEPT ![n] = R.m]
                    /\ queue' = R.queue
                    /\ nextId' = R.nextId
                    /\ procs' = Yielded(R, procs, ev.pid)
           ELSE IF due.val # ev.time
           THEN LET R == run(m, rest, ev.time, nextId, n)
                IN  /\ mgr' = [mgr EXCEPT ![n] = R.m]
                    /\ queue' = R.queue
                    /\ nextId' = R.nextId
                    /\ procs' = Yielded(R, procs, ev.pid)
           ELSE IF next_schedule.obj.mode = "TX"
           THEN LET R == run_processed(m1, q1, ev.time, nextId + 1, n)
                IN  /\ mgr' = [mgr EXCEPT ![n] = R.m]
                    /\ queue' = R.queue
                    /\ nextId' = R.nextId
                    /\ procs' = Yielded(R,
                          Spawn(procs, nextId,
                                Proc("transmit", n,
                                     next_schedule.obj.duration, e.packet,
                                     NoPacket)),
                          ev.pid)
           ELSE IF next_schedule.obj.mode = "RX"
           THEN /\ mgr' = [mgr EXCEPT ![n] = [m1 EXCEPT !.pc = "rx",
                                                        !.child = nextId]]
                /\ queue' = q1
                /\ nextId' = nextId + 1
                /\ procs' = Spawn([procs EXCEPT ![ev.pid].target = 0], nextId,
                                  Proc("receive", n, e.obj.duration, NoData,
                                       NoPacket))
           \* any other mode: nothing is enacted and event() is not called
           ELSE LET R == run_processed(m, rest, ev.time, nextId, n)
                IN  /\ mgr' = [mgr EXCEPT ![n] = R.m]
                    /\ queue' = R.queue
                    /\ nextId' = R.nextId
                    /\ procs' = Yielded(R, procs, ev.pid)
    /\ now' = ev.time
    /\ UNCHANGED <<radio, world, collisions, driver, txLog, rxLog, notifyLog,
                   halted, sched, call>>

\* the receive process the manager waits on has ended: handle_packet_cb is
\* called with its value, then lines 160-162 and round the loop
ManagerRxDone ==
    /\ Ready /\ ev.kind = "process" /\ Waits(ev)
    /\ LET n == ev.node
           m == [mgr[n] EXCEPT
                    !.child = 0,
                    !.handled = Append(@, [time |-> ev.time,
                                           val |-> ev.val.data_packet,
                                           sid |-> mgr[n].schedules[mgr[n].next].sid])]
           R == run_processed(m, rest, ev.time, nextId, n)
       IN  /\ mgr' = [mgr EXCEPT ![n] = R.m]
           /\ queue' = R.queue
           /\ nextId' = R.nextId
           /\ procs' = Yielded(R, procs, mgr[n].pid)
    /\ now' = ev.time
    /\ UNCHANGED <<radio, world, collisions, driver, txLog, rxLog, notifyLog,
                   halted, sched, call>>

\* an Interruption of the manager process is processed: simpy.Interrupt is
\* thrown into run() where it stands.  Only the yield of line 142 is inside
\* the try; at the yields of lines 135 and 155 the exception leaves run().
ManagerInterrupt ==
    /\ Ready /\ ev.kind = "interrupt" /\ is_alive(procs, ev.pid)
    /\ procs[ev.pid].kind = "manager"
    /\ LET n == procs[ev.pid].radio
           R == IF mgr[n].pc = "sleep"
                THEN run(mgr[n], rest, ev.time, nextId, n)
                ELSE Raise(mgr[n], rest, ev.time, nextId, n, "Interrupt")
       IN  /\ mgr' = [mgr EXCEPT ![n] = R.m]
           /\ queue' = R.queue
           /\ nextId' = R.nextId
           /\ procs' = Yielded(R, procs, ev.pid)
    /\ now' = ev.time
    /\ UNCHANGED <<radio, world, collisions, driver, txLog, rxLog, notifyLog,
                   halted, sched, call>>

\* the awaiting-schedules event that add() reactivated is processed: a
\* manager still parked on it goes on from line 140
AwaitingEvent ==
    /\ Ready /\ ev.kind = "awaiting_event"
    /\ LET n == ev.node
           parked == /\ is_alive(procs, mgr[n].pid)
                     /\ mgr[n].pc = "idle" /\ mgr[n].waiting = ev.id
           R == IF parked
                THEN run_select(mgr[n], rest, ev.time, nextId, n)
                ELSE [m |-> mgr[n], queue |-> rest, nextId |-> nextId]
       IN  /\ mgr' = [mgr EXCEPT ![n] = R.m]
           /\ queue' = R.queue
           /\ nextId' = R.nextId
           /\ procs' = IF parked THEN Yielded(R, procs, mgr[n].pid) ELSE procs
    /\ now' = ev.time
    /\ UNCHANGED <<radio, world, collisions, driver, txLog, rxLog, notifyLog,
                   halted, sched, call>>

\* Environment.step processes the event of a failed process that nobody
\* waits on: the exception is raised out of env.run()
Crash ==
    /\ Ready /\ ev.kind = "fail"
    /\ halted' = TRUE
    /\ now' = ev.time
    /\ queue' = rest
    /\ UNCHANGED <<nextId, radio, procs, world, collisions, driver, txLog,
                   rxLog, notifyLog, mgr, sched, call>>

NextManager ==
    \/ \E n \in Names, start \in 0..MaxStart, duration \in 1..MaxDur,
          delay \in 1..MaxDur, num \in 1..MaxFirings, mode \in {"TX", "RX"} :
          AddSchedule(n, start, duration, delay, num, mode)
    \/ \E d \in 1..MaxGap : DriverSleep(d)
    \/ DriverEnd
    \/ DriverWake
    \/ ManagerBegin
    \/ ManagerTimeout
    \/ ManagerRxDone
    \/ ManagerInterrupt
    \/ AwaitingEvent
    \/ Crash
    \/ TransmitBegin
    \/ TransmitEnd
    \/ ReceiveBegin
    \/ ReceiveListen
    \/ ReceiveEvent
    \/ ReceiveResume
    \/ TrackerBegin
    \/ TrackerTimeout
    \/ TrackerInterrupt
    \/ WorldEvent
    \/ communications
    \/ Stale

SpecManager == InitManager /\ [][NextManager]_vars

\* ------------------------------------- one listening and one talking node
\* the managers with one schedule more: node A's manager is given RX
\* schedules and node B's manager TX schedules, all of them before env.run()
Talker == "B"
InitOverlap == Managers(MaxAdds + 1)

NextOverlap ==
    \/ \E start \in 0..MaxStart, duration \in 1..MaxDur, delay \in 1..MaxDur,
          num \in 1..MaxFirings :
          \/ AddSchedule(Listener, start, duration, delay, num, "RX")
          \/ AddSchedule(Talker, start, duration, delay, num, "TX")
    \/ DriverEnd
    \/ ManagerBegin
    \/ ManagerTimeout
    \/ ManagerRxDone
    \/ ManagerInterrupt
    \/ AwaitingEvent
    \/ Crash
    \/ TransmitBegin
    \/ TransmitEnd
    \/ ReceiveBegin
    \/ ReceiveListen
    \/ ReceiveEvent
    \/ ReceiveResume
    \/ TrackerBegin
    \/ TrackerTimeout
    \/ TrackerInterrupt
    \/ WorldEvent
    \/ communications
    \/ Stale

SpecOverlap == InitOverlap /\ [][NextOverlap]_vars

\* ------------------------------------------------- histories that fill
\* A listens through one long window, B sends one long packet and C sends
\* a short packet every second tick, more often than a history has places:
\* C's transmit history, B's receive history (every packet of C is dropped
\* at the transmitting B) and the World's collision history (every packet
\* of C hits B's packet at A) all run over.
Fill == HistCap + MaxDur
Airtime == 2 * Fill

InitHistory == Managers(MaxAdds + 1)

NextHistory ==
    \/ AddSchedule(Listener, 0, Airtime, Airtime, 1, "RX")
    \/ AddSchedule(Talker, 0, Airtime, Airtime, 1, "TX")
    \/ AddSchedule("C", 0, 1, 2, Fill, "TX")
    \/ DriverEnd
    \/ ManagerBegin
    \/ ManagerTimeout
    \/ ManagerRxDone
    \/ ManagerInterrupt
    \/ AwaitingEvent
    \/ Crash
    \/ TransmitBegin
    \/ TransmitEnd
    \/ ReceiveBegin
    \/ ReceiveListen
    \/ ReceiveEvent
    \/ ReceiveResume
    \/ TrackerBegin
    \/ TrackerTimeout
    \/ TrackerInterrupt
    \/ WorldEvent
    \/ communications
    \/ Stale

SpecHistory == InitHistory /\ [][NextHistory]_vars

\* ------------------------------------------------ a suspended schedule
\* the program sets the state of a schedule that a manager holds to
\* ScheduleState.SUSPENDED
Suspend(n, k) ==
    /\ driver.active /\ driver.ops > 0
    /\ k \in DOMAIN mgr[n].schedules
    /\ mgr[n].schedules[k].obj.state = "ACTIVE"
    /\ mgr' = [mgr EXCEPT ![n].schedules[k].obj.state = "SUSPENDED"]
    /\ driver' = [driver EXCEPT !.ops = @ - 1]
    /\ UNCHANGED <<now, queue, nextId, radio, procs, world, collisions, txLog,
                   rxLog, notifyLog, halted, sched, call>>

NextSuspend ==
    \/ \E n \in Names, k \in 1..MaxAdds : Suspend(n, k)
    \/ NextManager

SpecSuspend == InitManager /\ [][NextSuspend]_vars

\* -------------------------------------------- a misconfigured destination
\* The driving process may also address a packet to an identifier that
\* names none of the World's nodes, or broadcast a packet whose source
\* field names none of them.
Stranger == "D"

NextStranger ==
    \/ \E r \in Names, d \in 1..MaxDur : StartTransmit(r, d, Stranger)
    \/ \E r \in Names, d \in 1..MaxDur :
          StartTransmitAs(r, d, Stranger, Broadcast)
    \/ Crash
    \/ Next

SpecStranger == Init /\ [][NextStranger]_vars

TypeOK ==
    /\ now \in Nat
    /\ \A n \in Names : radio[n].mode \in {"OFF", "RX", "TX"}
    /\ \A i \in 1..(Len(queue) - 1) : Ahead(queue[i], queue[i + 1])

\* ------------------------------------------------------------ properties
\* every event of a time up to t has been processed
Settled(t) == ~driver.active /\ (queue = <<>> \/ Head(queue).time > t)

Count(h, e) == Cardinality({k \in DOMAIN h : h[k] = e})
Recipients(packet) == {rx_nodes(packet)[k] : k \in DOMAIN rx_nodes(packet)}
Overlap(s1, e1, s2, e2) == s1 < e2 /\ s2 < e1
Src(packet) == packet.data_packet.src
Dest(packet) == packet.data_packet.dest

\* a receive window of R that opened by t0, closes after t1 and accepts rssi
InWindow(R, t0, t1, rssi) ==
    \E j \in DOMAIN rxLog :
        /\ rxLog[j].radio = R
        /\ rxLog[j].start <= t0
        /\ rxLog[j].end > t1
        /\ rssi >= rxLog[j].threshold

\* no other transmission is on air at R while transmission i is
Alone(i, R) ==
    \A k \in DOMAIN txLog :
        (k # i /\ R \in Recipients(txLog[k].packet)) =>
            ~Overlap(txLog[k].time, txLog[k].time + txLog[k].packet.duration,
                     txLog[i].time, txLog[i].time + txLog[i].packet.duration)

Clean(i) ==
    LET P == txLog[i].packet
        R == Dest(P)
        t0 == txLog[i].time
    IN  /\ R \in Names
        /\ InWindow(R, t0, t0 + P.duration, P.rssi)
        /\ Alone(i, R)
        /\ Settled(t0 + P.duration)

\* C1: a unicast transmission to a radio whose receive window covers it and
\* outlasts it, with enough RSSI and nothing else on air at that radio, is
\* logged once as received (status SUCCESS in the RX history) at start +
\* duration, once as sent at that same time, and appears in no collision
\* during its airtime.
C1_UnicastDelivered ==
    \A i \in DOMAIN txLog :
        LET P == txLog[i].packet
            R == Dest(P)
            t0 == txLog[i].time
            t1 == t0 + P.duration
            rx == radio[R].rx_hist
            tx == radio[txLog[i].radio].tx_hist
        IN  Clean(i) =>
              /\ Cardinality({k \in DOMAIN rx :
                                /\ rx[k].status = "SUCCESS" /\ rx[k].packet = P
                                /\ rx[k].time \in (t0 + 1)..t1}) = 1
              /\ Count(rx, PacketEvent("SUCCESS", t1, P)) = 1
              /\ Cardinality({k \in DOMAIN tx :
                                /\ tx[k].packet = P
                                /\ tx[k].time \in (t0 + 1)..t1}) = 1
              /\ Count(tx, PacketEvent("SUCCESS", t1, P)) = 1
              /\ \A k \in DOMAIN collisions :
                    collisions[k].time \in t0..(t1 - 1) =>
                        /\ collisions[k].packet_a # P
                        /\ collisions[k].packet_b # P

C1_Witness ==
    \E i \in DOMAIN txLog :
        /\ Clean(i)
        /\ Count(radio[Dest(txLog[i].packet)].rx_hist,
                 PacketEvent("SUCCESS", txLog[i].time + txLog[i].packet.duration,
                             txLog[i].packet)) = 1

\* the time at which the tracker interrupted by attempt k had started: the
\* latest attempt at the same radio before k that started a tracker
TrackStart(k) ==
    LET js == {j \in 1..(k - 1) : /\ notifyLog[j].radio = notifyLog[k].radio
                                  /\ notifyLog[j].outcome = "tracked"}
    IN  notifyLog[CHOOSE j \in js : \A j2 \in js : j2 <= j].time

Received(R, packet, t) ==
    \E k \in DOMAIN radio[R].rx_hist :
        radio[R].rx_hist[k] = PacketEvent("SUCCESS", t, packet)

Sent(packet, t) ==
    Count(radio[Src(packet)].tx_hist, PacketEvent("SUCCESS", t, packet)) = 1

\* C2: when a packet passes the gate at a receiver whose tracker for an
\* earlier packet is still live, neither of the two is ever logged as
\* received at that receiver, and both transmitters log their SUCCESS at the
\* end of their own airtime.
C2_CollisionLosesBoth ==
    \A k \in DOMAIN notifyLog :
        LET n == notifyLog[k]
            Q == n.packet
            P == n.tracked
            tq == n.time + Q.duration
            tp == TrackStart(k) + P.duration
        IN  n.outcome = "interrupt" =>
              /\ ~Received(n.radio, Q, tq)
              /\ ~Received(n.radio, P, tp)
              /\ Settled(tq) => Sent(Q, tq)
              /\ Settled(tp) => Sent(P, tp)

C2_Witness ==
    \E k \in DOMAIN notifyLog :
        /\ notifyLog[k].outcome = "interrupt"
        /\ notifyLog[k].time > TrackStart(k)
        /\ Settled(notifyLog[k].time + notifyLog[k].packet.duration)
        /\ Settled(TrackStart(k) + notifyLog[k].tracked.duration)

\* the attempts that interrupted a live tracker, in order
Interrupts == SelectSeq(notifyLog, LAMBDA n : n.outcome = "interrupt")

\* C3: once the pending interrupts have been delivered, the collision
\* history holds exactly one CollisionEvent per packet that interrupted a
\* live tracker, in order, with the tick of the interrupting packet's arrival
\* as its time, the interrupting packet as packet_a and the tracked packet
\* as packet_b; two packets arriving at a listening receiver at the same
\* tick give exactly one event.
C3_OneCollisionPerInterrupt ==
    (queue = <<>> \/ ~Head(queue).urgent) =>
        /\ Len(collisions) = Len(Interrupts)
        /\ \A k \in DOMAIN collisions :
              /\ collisions[k].time = Interrupts[k].time
              /\ collisions[k].packet_a = Interrupts[k].packet
              /\ collisions[k].packet_b = Interrupts[k].tracked

C3_Witness ==
    /\ queue = <<>>
    /\ Len(collisions) = 1
    /\ \E i, j \in DOMAIN txLog :
          /\ i # j
          /\ txLog[i].time = txLog[j].time
          /\ Dest(txLog[i].packet) = Dest(txLog[j].packet)
          /\ collisions[1].time = txLog[i].time
          /\ collisions[1].packet_a = txLog[j].packet
          /\ collisions[1].packet_b = txLog[i].packet

\* C4: no other transmission routed to a receiver is on air during the
\* airtime of a packet that receiver logs as received.
C4_NoOverlapOnSuccess ==
    \A R \in Names :
        \A k \in DOMAIN radio[R].rx_hist :
            LET e == radio[R].rx_hist[k]
                ta == e.time - e.packet.duration
            IN  e.status = "SUCCESS" =>
                  \A j \in DOMAIN notifyLog :
                      LET n == notifyLog[j]
                      IN  (n.radio = R /\ ~(n.packet = e.packet /\ n.time = ta))
                            => ~Overlap(n.time, n.time + n.packet.duration,
                                        ta, e.time)

\* C5: of the packets whose airtimes at a receiver overlap, at most one is
\* logged as received.
C5_OneSuccessPerOverlap ==
    \A R \in Names :
        \A i, j \in DOMAIN radio[R].rx_hist :
            LET a == radio[R].rx_hist[i]
                b == radio[R].rx_hist[j]
            IN  (i < j /\ a.status = "SUCCESS" /\ b.status = "SUCCESS") =>
                  ~Overlap(a.time - a.packet.duration, a.time,
                           b.time - b.packet.duration, b.time)

C5_Witness ==
    \E R \in Names :
        \E k \in DOMAIN radio[R].rx_hist :
            LET e == radio[R].rx_hist[k]
            IN  /\ e.status = "SUCCESS"
                /\ \E j \in DOMAIN notifyLog :
                      /\ notifyLog[j].radio = R
                      /\ notifyLog[j].packet # e.packet
                      /\ Overlap(notifyLog[j].time,
                                 notifyLog[j].time + notifyLog[j].packet.duration,
                                 e.time - e.packet.duration, e.time)

\* C6: a packet is logged as received only at arrival + duration, never
\* before, and only when its tracker was started at the arrival and no
\* packet interrupted it during the airtime.
C6_ConsumedAfterAirtime ==
    \A R \in Names :
        \A k \in DOMAIN radio[R].rx_hist :
            LET e == radio[R].rx_hist[k]
                ta == e.time - e.packet.duration
            IN  e.status = "SUCCESS" =>
                  /\ e.time <= now
                  /\ \E j \in DOMAIN notifyLog :
                        /\ notifyLog[j].radio = R
                        /\ notifyLog[j].packet = e.packet
                        /\ notifyLog[j].time = ta
                        /\ notifyLog[j].outcome = "tracked"
                  /\ \A j \in DOMAIN notifyLog :
                        (notifyLog[j].radio = R
                           /\ notifyLog[j].outcome = "interrupt")
                          => ~(ta <= notifyLog[j].time /\ notifyLog[j].time < e.time)

C6_Witness ==
    \E R \in Names :
        \E k \in DOMAIN radio[R].rx_hist :
            /\ radio[R].rx_hist[k].status = "SUCCESS"
            /\ radio[R].rx_hist[k].packet.duration > 1
            /\ radio[R].rx_hist[k].time = now
            /\ \E j \in DOMAIN notifyLog :
                  /\ notifyLog[j].radio = R
                  /\ notifyLog[j].outcome = "tracked"
                  /\ notifyLog[j].packet = radio[R].rx_hist[k].packet
                  /\ notifyLog[j].time + notifyLog[j].packet.duration = now

\* C8: notify_intent_to_deliver, applied to any radio the program reaches and
\* any packet transmitted, returns true exactly when the mode is RX and the
\* packet's RSSI is at least the threshold; returning true it leaves the
\* radio as it was; returning false it appends one event to the RX history,
\* with time now and the packet, DROPPED_MODE when the mode is not RX
\* whatever the RSSI, DROPPED_RSSI otherwise; and every call the World made
\* returned by that rule.
C8_GateVerdict ==
    /\ \A r \in Names :
          \A i \in DOMAIN txLog :
              LET rd == radio[r]
                  P == txLog[i].packet
                  n == notify_intent_to_deliver(rd, P, now)
                  status == IF rd.mode # "RX" THEN "DROPPED_MODE"
                            ELSE "DROPPED_RSSI"
              IN  /\ n.ret <=> (rd.mode = "RX" /\ P.rssi >= rd.threshold)
                  /\ n.ret => n.rd = rd
                  /\ ~n.ret =>
                        n.rd = [rd EXCEPT !.rx_hist =
                                   Append(rd.rx_hist,
                                          [status |-> status, time |-> now,
                                           packet |-> P])]
    /\ \A k \in DOMAIN notifyLog :
          LET n == notifyLog[k]
          IN  /\ n.ret <=> (n.mode = "RX" /\ n.packet.rssi >= n.threshold)
              /\ ~n.ret =>
                    \E j \in DOMAIN radio[n.radio].rx_hist :
                        radio[n.radio].rx_hist[j] =
                            [status |-> IF n.mode # "RX" THEN "DROPPED_MODE"
                                        ELSE "DROPPED_RSSI",
                             time |-> n.time, packet |-> n.packet]

C8_Witness ==
    \E k \in DOMAIN notifyLog :
        /\ notifyLog[k].mode # "RX"
        /\ notifyLog[k].packet.rssi < notifyLog[k].threshold
        /\ ~notifyLog[k].ret
        /\ radio[notifyLog[k].radio].rx_hist =
              <<[status |-> "DROPPED_MODE", time |-> notifyLog[k].time,
                 packet |-> notifyLog[k].packet]>>

\* the events of radio R's RX history about packet P with a time in t0..t1
RxEvents(R, P, t0, t1) ==
    SelectSeq(radio[R].rx_hist,
              LAMBDA e : e.packet = P /\ e.time >= t0 /\ e.time <= t1)

\* C9: a packet routed to a radio that is not in RX mode when the
\* transmission starts is refused; the radio's RX history holds, about that
\* packet and over its airtime, the one event DROPPED_MODE with the time of
\* the start, and no SUCCESS up to the end of the airtime, also when the
\* radio enters RX meanwhile; no delivery tracker runs for it at that radio;
\* a CollisionEvent
\* naming it within its airtime comes from its arrival at another radio;
\* and the transmitter logs SUCCESS at start + duration.
C9_NotListening ==
    \A k \in DOMAIN notifyLog :
        LET n == notifyLog[k]
            P == n.packet
            R == n.radio
            t1 == n.time + P.duration
            others == {j \in DOMAIN notifyLog :
                          /\ notifyLog[j].packet = P
                          /\ notifyLog[j].time = n.time
                          /\ notifyLog[j].radio # R}
        IN  n.mode # "RX" =>
              /\ ~n.ret /\ n.outcome = "dropped"
              /\ RxEvents(R, P, n.time, t1 - 1) =
                    <<[status |-> "DROPPED_MODE", time |-> n.time,
                       packet |-> P]>>
              /\ \A e \in DOMAIN RxEvents(R, P, n.time, t1) :
                    RxEvents(R, P, n.time, t1)[e].status # "SUCCESS"
              /\ now < t1 =>
                    ~\E pid \in DOMAIN procs :
                        /\ procs[pid].kind = "tracker"
                        /\ procs[pid].radio = R
                        /\ procs[pid].pkt = P
              /\ \A c \in DOMAIN collisions :
                    (collisions[c].time >= n.time /\ collisions[c].time < t1) =>
                        /\ collisions[c].packet_a = P =>
                              \E j \in others :
                                  notifyLog[j].outcome = "interrupt"
                        /\ collisions[c].packet_b = P =>
                              \E j \in others :
                                  notifyLog[j].outcome = "tracked"
              /\ Settled(t1) => Sent(P, t1)

C9_Witness ==
    \E j, k \in DOMAIN notifyLog :
        /\ j # k
        /\ notifyLog[j].radio = notifyLog[k].radio
        /\ notifyLog[j].time = notifyLog[k].time
        /\ notifyLog[j].mode # "RX" /\ notifyLog[k].mode # "RX"
        /\ notifyLog[j].packet.duration > 1
        /\ \E w \in DOMAIN rxLog :
              /\ rxLog[w].radio = notifyLog[j].radio
              /\ rxLog[w].start > notifyLog[j].time
              /\ rxLog[w].start < notifyLog[j].time + notifyLog[j].packet.duration
        /\ collisions = <<>>
        /\ Settled(notifyLog[j].time + notifyLog[j].packet.duration)
        /\ Settled(notifyLog[k].time + notifyLog[k].packet.duration)

\* C10: a radio that was given one receive window, to which one packet was
\* routed during the window with an RSSI below the threshold, stays in RX
\* until the end of the window, and once the window has closed its RX
\* history is DROPPED_RSSI at the packet's arrival followed by NOTHING_RX
\* at the end of the window; the transmitter logs SUCCESS at the end of its
\* airtime.
C10_RssiGate ==
    \A w \in DOMAIN rxLog :
        \A k \in DOMAIN notifyLog :
            LET R == rxLog[w].radio
                n == notifyLog[k]
                P == n.packet
            IN  (/\ n.radio = R
                 /\ n.mode = "RX" /\ P.rssi < n.threshold
                 /\ n.time >= rxLog[w].start /\ n.time < rxLog[w].end
                 /\ \A w2 \in DOMAIN rxLog : rxLog[w2].radio = R => w2 = w
                 /\ \A k2 \in DOMAIN notifyLog :
                       notifyLog[k2].radio = R => k2 = k) =>
                  /\ now < rxLog[w].end => radio[R].mode = "RX"
                  /\ Settled(n.time + P.duration) =>
                        Sent(P, n.time + P.duration)
                  /\ Settled(rxLog[w].end) =>
                        radio[R].rx_hist =
                           <<[status |-> "DROPPED_RSSI", time |-> n.time,
                              packet |-> P],
                             [status |-> "NOTHING_RX", time |-> rxLog[w].end,
                              packet |-> NoPacket]>>

\* the attempts at radio R that started a tracker still live at time t
LiveTrackers(R, t) ==
    {k \in DOMAIN notifyLog :
        /\ notifyLog[k].radio = R
        /\ notifyLog[k].outcome = "tracked"
        /\ notifyLog[k].time <= t
        /\ notifyLog[k].time + notifyLog[k].packet.duration >= t}

\* C11: a receive window in which nothing was logged as received and at
\* whose end no delivery tracker is live leaves, once it has closed, exactly
\* one NOTHING_RX event with no packet and the time of the window's end in
\* the radio's RX history.
C11_NothingOnAir ==
    \A w \in DOMAIN rxLog :
        LET R == rxLog[w].radio
            rx == radio[R].rx_hist
        IN  (/\ Settled(rxLog[w].end)
             /\ LiveTrackers(R, rxLog[w].end) = {}
             /\ \A k \in DOMAIN rx :
                   rx[k].status = "SUCCESS" =>
                       (rx[k].time <= rxLog[w].start \/ rx[k].time > rxLog[w].end))
            => Count(rx, [status |-> "NOTHING_RX", time |-> rxLog[w].end,
                          packet |-> NoPacket]) = 1

\* C12: when the only receive window of a radio ends while the only packet
\* routed to it, which passed the gate inside the window, is still on air,
\* the radio's RX history is the single event NOTHING_RX at the end of the
\* window, the tracker has been flagged and hands nothing over, and the
\* transmitter logs SUCCESS at its own start + duration.
C12_PartialOverlap ==
    \A w \in DOMAIN rxLog :
        \A k \in DOMAIN notifyLog :
            LET R == rxLog[w].radio
                n == notifyLog[k]
                t1 == n.time + n.packet.duration
            IN  (/\ n.radio = R /\ n.outcome = "tracked"
                 /\ n.time >= rxLog[w].start
                 /\ n.time < rxLog[w].end /\ rxLog[w].end < t1
                 /\ \A w2 \in DOMAIN rxLog : rxLog[w2].radio = R => w2 = w
                 /\ \A k2 \in DOMAIN notifyLog :
                       notifyLog[k2].radio = R => k2 = k
                 /\ Settled(t1)) =>
                  /\ radio[R].rx_hist =
                        <<[status |-> "NOTHING_RX", time |-> rxLog[w].end,
                           packet |-> NoPacket]>>
                  /\ Sent(n.packet, t1)

\* what of C12 the code does: nothing is logged as received, the tracker is
\* interrupted and hands nothing over, the transmitter logs SUCCESS
PartialOverlapLosesPacket ==
    \A w \in DOMAIN rxLog :
        \A k \in DOMAIN notifyLog :
            LET R == rxLog[w].radio
                n == notifyLog[k]
                t1 == n.time + n.packet.duration
            IN  (/\ n.radio = R /\ n.outcome = "tracked"
                 /\ n.time >= rxLog[w].start
                 /\ n.time < rxLog[w].end /\ rxLog[w].end < t1
                 /\ \A w2 \in DOMAIN rxLog : rxLog[w2].radio = R => w2 = w
                 /\ \A k2 \in DOMAIN notifyLog :
                       notifyLog[k2].radio = R => k2 = k
                 /\ Settled(t1)) =>
                  /\ radio[R].rx_hist = <<>>
                  /\ collisions = <<>>
                  /\ Sent(n.packet, t1)

\* ----------------------------------------------------- ScheduleManager
Firings(n, sid) == {i \in DOMAIN mgr[n].fired : mgr[n].fired[i].sid = sid}
FiredAt(n, sid, t) ==
    \E i \in Firings(n, sid) : mgr[n].fired[i].time = t
Adds == {<<n, i>> : n \in Names, i \in 1..MaxAdds}
Added == {x \in Adds : x[2] \in DOMAIN mgr[x[1]].added}
\* no schedule was added with its start already behind the clock
NoneInPast == \A x \in Added : mgr[x[1]].added[x[2]].obj.start >=
                               mgr[x[1]].added[x[2]].time
\* no schedule was added to a manager parked on the awaiting-schedules
\* event or on a receive
NoneWhileParked == \A x \in Added : mgr[x[1]].added[x[2]].pc \in {"init", "sleep"}

\* every schedule of node n is a TX schedule
OnlyTx(n) == \A i \in DOMAIN mgr[n].added : mgr[n].added[i].obj.mode = "TX"
\* every schedule was added before env.run()
AllFromStart == \A x \in Added : mgr[x[1]].added[x[2]].pc = "init"

\* C13: a TX Schedule (start, duration, delay, num) added to a manager makes
\* the radio start a transmission at each tick start + k*delay, k = 0..num-1,
\* the k-th carrying the k-th packet of the constructor, and log SUCCESS at
\* start + k*delay + duration; the schedule fires at most num times.
\* (Stated for schedules whose start is not behind the clock when added.)
C13_TxScheduleFires ==
    \A n \in Names : \A i \in DOMAIN mgr[n].added :
        LET a == mgr[n].added[i]
            packet(k) == RadioPacket(FieldPacket(n, Broadcast, k + 1),
                                     a.obj.duration, TxRssi)
        IN  (a.obj.mode = "TX" /\ NoneInPast) =>
              /\ Cardinality(Firings(n, a.sid)) <= a.obj.num
              /\ \A k \in 0..(a.obj.num - 1) :
                    LET t == a.obj.start + k * a.obj.delay
                    IN  /\ Settled(t) =>
                              \E j \in DOMAIN txLog :
                                  txLog[j] = [radio |-> n, packet |-> packet(k),
                                              time |-> t]
                        /\ Settled(t + a.obj.duration) =>
                              \E j \in DOMAIN radio[n].tx_hist :
                                  radio[n].tx_hist[j] =
                                      PacketEvent("SUCCESS",
                                                  t + a.obj.duration, packet(k))

\* what does hold of TX schedules: added before env.run() to a manager that
\* holds TX schedules only, each fires at every start + k*delay
TxScheduleFiresFromStart ==
    \A n \in Names : \A i \in DOMAIN mgr[n].added :
        LET a == mgr[n].added[i]
        IN  (AllFromStart /\ OnlyTx(n)) =>
              /\ Cardinality(Firings(n, a.sid)) <= a.obj.num
              /\ \A k \in 0..(a.obj.num - 1) :
                    LET t == a.obj.start + k * a.obj.delay
                    IN  Settled(t) =>
                          /\ FiredAt(n, a.sid, t)
                          /\ \E j \in DOMAIN txLog :
                                /\ txLog[j].radio = n /\ txLog[j].time = t
                                /\ txLog[j].packet.data_packet =
                                      FieldPacket(n, Broadcast, k + 1)

\* C14: every firing of an RX schedule is followed, when its window has
\* ended, by exactly one call of handle_packet_cb, made at the end of the
\* window.  (Stated for runs in which no schedule is added behind the clock.)
C14_HandleOncePerWindow ==
    \A n \in Names : \A i \in DOMAIN mgr[n].fired :
        LET f == mgr[n].fired[i]
            end == f.time + mgr[n].added[f.sid].obj.duration
        IN  (f.mode = "RX" /\ NoneInPast /\ Settled(end)) =>
              Cardinality({j \in DOMAIN mgr[n].handled :
                              /\ mgr[n].handled[j].sid = f.sid
                              /\ mgr[n].handled[j].time = end}) = 1

\* what does hold of RX schedules: when every schedule was added before
\* env.run(), each window that has ended was handled once, at its end
HandleOncePerWindowFromStart ==
    \A n \in Names : \A i \in DOMAIN mgr[n].fired :
        LET f == mgr[n].fired[i]
            end == f.time + mgr[n].added[f.sid].obj.duration
        IN  (f.mode = "RX" /\ AllFromStart /\ Settled(end)) =>
              Cardinality({j \in DOMAIN mgr[n].handled :
                              /\ mgr[n].handled[j].sid = f.sid
                              /\ mgr[n].handled[j].time = end}) = 1

\* C15: when add(S2) is called while the manager sleeps until S1's next
\* firing and S2 is due earlier than S1, S2 fires when it is due and S1 still
\* fires when it is due.  (Stated for runs in which no schedule is added
\* behind the clock and none to a parked manager.)
C15_InsertionPreempts ==
    \A n \in Names : \A i \in DOMAIN mgr[n].added :
        LET a == mgr[n].added[i]
        IN  (/\ a.pc = "sleep" /\ a.obj.start < a.ahead.due
             /\ NoneInPast /\ NoneWhileParked) =>
              /\ Settled(a.obj.start) => FiredAt(n, a.sid, a.obj.start)
              /\ Settled(a.ahead.due) => FiredAt(n, a.ahead.sid, a.ahead.due)
              /\ \A j, k \in DOMAIN mgr[n].fired :
                    j < k => mgr[n].fired[j].due <= mgr[n].fired[k].due

\* what does hold of an insertion: between TX schedules, the earlier one
\* added while the manager sleeps is fired when due, and so is the other
InsertionPreemptsTx ==
    \A n \in Names : \A i \in DOMAIN mgr[n].added :
        LET a == mgr[n].added[i]
        IN  (/\ a.pc = "sleep" /\ a.obj.start < a.ahead.due
             /\ NoneInPast /\ NoneWhileParked /\ OnlyTx(n)) =>
              /\ Settled(a.obj.start) => FiredAt(n, a.sid, a.obj.start)
              /\ Settled(a.ahead.due) => FiredAt(n, a.ahead.sid, a.ahead.due)
              /\ \A j, k \in DOMAIN mgr[n].fired :
                    j < k => mgr[n].fired[j].due <= mgr[n].fired[k].due

\* C16: when add(S) is called while the manager is parked on the
\* awaiting-schedules event with nothing in its list, the manager keeps
\* running and S fires when it is due.  (Stated for the first schedule a
\* run adds, its start not behind the clock.)
C16_WakeFromQuiescence ==
    \A n \in Names :
        LET a == mgr[n].added[1]
        IN  (/\ Added = {<<n, 1>>} /\ a.pc = "idle"
             /\ a.obj.start >= a.time) =>
              /\ mgr[n].pc # "dead"
              /\ is_alive(procs, mgr[n].pid)
              /\ ~halted
              /\ Settled(a.obj.start) => FiredAt(n, a.sid, a.obj.start)

\* C17: a schedule whose start is behind the clock when it is added fires
\* at the tick of the add, and the manager keeps running.  (Stated for a
\* schedule added while the manager sleeps for another one, in a run that
\* adds nothing to a parked manager.)
C17_PastSchedulesFireNow ==
    \A n \in Names : \A i \in DOMAIN mgr[n].added :
        LET a == mgr[n].added[i]
        IN  (/\ a.pc = "sleep" /\ a.obj.start < a.time
             /\ NoneWhileParked) =>
              /\ mgr[n].pc # "dead"
              /\ ~halted
              /\ Settled(a.time) => FiredAt(n, a.sid, a.time)

\* C18: next_time() returns start + _current * delay while _current < num;
\* it changes nothing, and called again without an event() between it
\* returns the same value; an advance of event() adds exactly one to
\* _current, so the k-th firing (counted from 0) is at start + k * delay.
C18_NextTimeIdempotent ==
    LET o == sched.obj
    IN  /\ sched.op = "next_time" =>
              /\ o = sched.prev
              /\ o.current < o.num =>
                    sched.ok /\ sched.time = o.start + o.current * o.delay
        /\ (sched.op = "next_time" /\ sched.op0 = "next_time") =>
              sched.time = sched.time0
        /\ (sched.op = "event" /\ sched.ok) =>
              o.current = sched.prev.current + 1
        /\ \A k \in DOMAIN sched.fires :
              sched.fires[k].time = o.start + (k - 1) * o.delay

C18_Witness ==
    /\ sched.op = "next_time" /\ sched.op0 = "next_time" /\ sched.ok
    /\ Len(sched.fires) = 2
    /\ sched.obj.delay > 1 /\ sched.obj.start > 0

\* C19: _current stays within 0..num and never decreases; the state is
\* ACTIVE until the advance that makes _current = num and COMPLETE from
\* then on; with _current = num, next_time() raises and event() yields
\* nothing and changes nothing.
C19_ScheduleExpiry ==
    LET o == sched.obj
    IN  /\ o.current \in 0..o.num
        /\ o.current >= sched.prev.current
        /\ o.current < o.num => o.state = "ACTIVE"
        /\ o.state = "COMPLETE" => o.current = o.num
        /\ (sched.op = "event" /\ sched.ok /\ o.current = o.num) =>
              o.state = "COMPLETE" /\ sched.prev.state = "ACTIVE"
        /\ (sched.op = "next_time" /\ o.current = o.num) => ~sched.ok
        /\ (sched.op = "event" /\ sched.prev.current = o.num) =>
              ~sched.ok /\ o = sched.prev

C19_Witness ==
    /\ sched.obj.num > 1
    /\ sched.obj.state = "COMPLETE"
    /\ sched.op = "event" /\ ~sched.ok
    /\ sched.op0 = "next_time"

\* C20: the packet constructor of a TX schedule has been invoked once per
\* firing, the k-th firing (counted from 0) carries the value of its
\* (k+1)-th invocation, and neither construction nor next_time() invokes it.
C20_ConstructorOncePerFiring ==
    LET o == sched.obj
    IN  o.mode = "TX" =>
          /\ o.packet_constructor.var = o.current
          /\ Len(sched.fires) = o.current
          /\ \A k \in DOMAIN sched.fires :
                sched.fires[k].packet =
                    [src |-> o.packet_constructor.src,
                     dest |-> o.packet_constructor.dest,
                     contents |-> ToString(k)]
          /\ sched.op = "new" => o.packet_constructor.var = 0
          /\ sched.op = "next_time" =>
                o.packet_constructor.var = sched.prev.packet_constructor.var

C20_Witness ==
    /\ sched.obj.mode = "TX"
    /\ sched.obj.num = MaxNum
    /\ Len(sched.fires) = MaxNum
    /\ sched.op = "next_time"

\* ------------------------------------------- constructors and comparisons
\* C21: Schedule construction fails when duration > delay, fails when the
\* mode is TX and no packet_constructor is given, and succeeds for every
\* other combination, with the fields as given, state ACTIVE and _current 0.
C21_ScheduleConstruction ==
    call.op = "Schedule" =>
        /\ call.res.ok <=>
              ~(\/ call.duration > call.delay
                \/ call.mode = "TX" /\ call.packet_constructor = NoCtor)
        /\ call.res.ok =>
              /\ call.res.obj.state = "ACTIVE"
              /\ call.res.obj.current = 0
              /\ call.res.obj.start = call.start
              /\ call.res.obj.duration = call.duration
              /\ call.res.obj.delay = call.delay
              /\ call.res.obj.num = call.num
              /\ call.res.obj.mode = call.mode
              /\ call.res.obj.packet_constructor = call.packet_constructor

C21_Witness ==
    /\ call.op = "Schedule" /\ call.res.ok
    /\ call.duration = call.delay
    /\ call.mode = "RX" /\ call.packet_constructor = NoCtor

\* C22: DataPacket construction succeeds exactly when one of fields and
\* contents is supplied and the other is not; otherwise it raises, no packet
\* is made and no producer is called.
C22_ExactlyOneArgument ==
    call.op = "DataPacket" =>
        /\ call.res.ok <=> (call.fields.given # call.contents.given)
        /\ call.res.ok => /\ call.res.packet.src = call.src
                          /\ call.res.packet.dest = call.dest
        /\ ~call.res.ok => /\ "packet" \notin DOMAIN call.res
                           /\ call.res.cells = call.before

C22_Witness ==
    /\ call.op = "DataPacket" /\ ~call.res.ok
    /\ call.fields.given /\ call.contents.given
    /\ call.fields.map # <<>>

\* the value the i-th producer of the mapping hands out: its cell as it was
\* before the construction, plus one for each call made on that cell so far
Produced(i) ==
    call.before[call.fields.map[i].cell] +
    Cardinality({j \in 1..i :
                    call.fields.map[j].cell = call.fields.map[i].cell})
\* the contents mapping holding the produced values, and the same one
\* written down in the opposite order
Frozen ==
    [i \in DOMAIN call.fields.map |->
        [name |-> call.fields.map[i].name, val |-> Produced(i)]]
Reversed(m) == [i \in DOMAIN m |-> m[Len(m) + 1 - i]]

\* C23: a DataPacket built from a fields mapping has called each producer
\* of the mapping once, in the order of the mapping, and equals the
\* DataPacket with the same src and dest built from the contents mapping
\* that holds the produced values, in whatever order that mapping is
\* written; calling the producers again afterwards does not change it.
C23_FieldsRoundTrip ==
    (call.op = "DataPacket" /\ call.fields.given /\ call.res.ok) =>
        /\ \A c \in Cells :
              call.res.cells[c] - call.before[c] =
                  Cardinality({i \in DOMAIN call.fields.map :
                                  call.fields.map[i].cell = c})
        /\ \A m \in {Frozen, Reversed(Frozen)} :
              LET other == DataPacket_init(call.src, call.dest, None,
                                           Mapping(m), call.cells)
              IN  /\ other.ok
                  /\ DataPacket_eq(call.res.packet, other.packet)
                  /\ DataPacket_eq(other.packet, call.res.packet)
        /\ \A i \in DOMAIN call.fields.map :
              /\ call.res.packet.contents[i].name = call.fields.map[i].name
              /\ call.res.packet.contents[i].val = Produced(i)

C23_Witness ==
    /\ call.op = "DataPacket" /\ call.fields.given /\ call.res.ok
    /\ Len(call.fields.map) = 2
    /\ call.fields.map[1].cell = call.fields.map[2].cell
    /\ call.later > 0 /\ call.cells # call.res.cells

\* C24: two CollisionEvents are equal exactly when their times are equal
\* and their packets are equal as unordered pairs.
C24_CollisionEventEquality ==
    call.op = "CollisionEvent.__eq__" =>
        (call.res <=>
            /\ call.x.time = call.y.time
            /\ \/ /\ call.x.packet_a = call.y.packet_a
                  /\ call.x.packet_b = call.y.packet_b
               \/ /\ call.x.packet_a = call.y.packet_b
                  /\ call.x.packet_b = call.y.packet_a)

\* what does hold of the comparison: events of one time compare as the
\* claim says
CollisionEventSameTime ==
    call.op = "CollisionEvent.__eq__" =>
        /\ call.x.time = call.y.time =>
              (call.res <=>
                  \/ /\ call.x.packet_a = call.y.packet_a
                     /\ call.x.packet_b = call.y.packet_b
                  \/ /\ call.x.packet_a = call.y.packet_b
                     /\ call.x.packet_b = call.y.packet_a)

\* ------------------------------------------------------- mode discipline
\* the transmit and receive calls of radio r that have begun and not ended
Transmitting(r) ==
    {pid \in DOMAIN procs : /\ procs[pid].kind = "transmit"
                            /\ procs[pid].radio = r
                            /\ procs[pid].target # 0}
Receiving(r) ==
    {pid \in DOMAIN procs : /\ procs[pid].kind = "receive"
                            /\ procs[pid].radio = r
                            /\ procs[pid].target # 0}

\* C25: between ticks every radio's mode is OFF, RX or TX, and a radio whose
\* mode is not OFF has exactly one activity in progress, a transmit when the
\* mode is TX and a receive when it is RX.
C25_ModeDiscipline ==
    Settled(now) =>
        \A r \in Names :
            /\ radio[r].mode \in {"OFF", "RX", "TX"}
            /\ radio[r].mode # "OFF" =>
                  /\ Cardinality(Transmitting(r)) +
                     Cardinality(Receiving(r)) = 1
                  /\ radio[r].mode = "TX" <=> Transmitting(r) # {}
                  /\ radio[r].mode = "RX" <=> Receiving(r) # {}

\* -------------------------------------------------- unknown destinations
\* the transmissions begun for an identifier that names no node
Misaddressed ==
    {i \in DOMAIN txLog :
        txLog[i].packet.data_packet.dest \notin Names \cup {Broadcast}}

\* C26: a transmission addressed to an identifier that names no node ends
\* the routing task at the tick it is begun: that packet reaches no radio's
\* gate, no packet is routed from then on, and the exception is raised out
\* of env.run().
C26_UnknownDestinationFatal ==
    \A i \in Misaddressed :
        /\ \A k \in DOMAIN notifyLog :
              /\ notifyLog[k].packet # txLog[i].packet
              /\ notifyLog[k].time <= txLog[i].time
        /\ \A pid \in DOMAIN procs :
              procs[pid].kind = "tracker" => procs[pid].pkt # txLog[i].packet
        /\ Settled(txLog[i].time) => (halted /\ world = Ended)
        /\ now > txLog[i].time => halted

C26_Witness ==
    /\ halted /\ world = Ended
    /\ \E i \in Misaddressed : \E k \in DOMAIN notifyLog :
          /\ notifyLog[k].time = txLog[i].time
          /\ Settled(txLog[i].time)

\* ----------------------------------------------------------- transmit
\* the transmit-event reactivations waiting in q that carry packet p of
\* radio r at time t
Reactivations(q, r, t, p) ==
    {k \in DOMAIN q : /\ q[k].kind = "transmit_event" /\ q[k].node = r
                      /\ q[k].time = t /\ q[k].val = p}
\* a step in which a transmit() begins, and one in which radio r logs TX
TransmitBegins == Len(txLog') = Len(txLog) + 1
TxLogged(r) == radio'[r].tx_hist # radio[r].tx_hist

\* C27, the step at t: mode TX, one reactivation of the radio's
\* transmit-event carrying RadioPacket(data, duration, rssi 1.0), a fresh
\* event held afterwards.
TransmitStarts ==
    TransmitBegins =>
        LET e == txLog'[Len(txLog')]
            p == procs[Head(queue).pid]
        IN  /\ e.time = now' /\ e.radio = p.radio
            /\ e.packet = RadioPacket(p.data, p.duration, TxRssi)
            /\ radio'[e.radio].mode = "TX"
            /\ Cardinality(Reactivations(queue', e.radio, now', e.packet)) =
               Cardinality(Reactivations(queue, e.radio, now', e.packet)) + 1
            /\ Cardinality({k \in DOMAIN queue' :
                               queue'[k].kind = "transmit_event"}) =
               Cardinality({k \in DOMAIN queue :
                               queue[k].kind = "transmit_event"}) + 1
            /\ \E k \in Reactivations(queue', e.radio, now', e.packet) :
                  queue'[k].id = radio[e.radio].transmit_event
            /\ radio'[e.radio].transmit_event # radio[e.radio].transmit_event

\* C27, the step at t + duration: mode OFF and one SUCCESS event with the
\* time of the step and the packet of a transmit() begun duration earlier.
TransmitCompletes ==
    \A r \in Names :
        TxLogged(r) =>
            \E i \in DOMAIN txLog :
                /\ txLog[i].radio = r
                /\ txLog[i].time + txLog[i].packet.duration = now'
                /\ radio'[r].tx_hist =
                      HistAppend(radio[r].tx_hist,
                                 PacketEvent("SUCCESS", now', txLog[i].packet))
                /\ radio'[r].mode = "OFF"

\* C27, over the run: a transmit() begun at t has no SUCCESS event before
\* t + duration and exactly one from then on (one for each transmit() of
\* that radio, packet and tick), whatever its recipients did with it.
TransmitLogged ==
    \A i \in DOMAIN txLog :
        LET e == txLog[i]
            end == e.time + e.packet.duration
            same == {j \in DOMAIN txLog : txLog[j] = e}
            logged == Count(radio[e.radio].tx_hist,
                            PacketEvent("SUCCESS", end, e.packet))
        IN  /\ now < end => logged = 0
            /\ Settled(end) => logged = Cardinality(same)
            /\ logged <= Cardinality(same)

\* C27: transmit(duration, data) started at t sets the mode to TX and
\* reactivates the transmit-event once with RadioPacket(data, duration,
\* rssi 1.0) at t, and at t + duration sets the mode to OFF and appends
\* exactly one SUCCESS event with that time and packet, whatever happened to
\* the packet at its recipients.
C27_TransmitContract ==
    /\ [][TransmitStarts /\ TransmitCompletes]_vars
    /\ []TransmitLogged

\* a packet that a recipient dropped and another that collided are both
\* logged as sent
C27_Witness ==
    \E i \in DOMAIN txLog :
        /\ Count(radio[txLog[i].radio].tx_hist,
                 PacketEvent("SUCCESS",
                             txLog[i].time + txLog[i].packet.duration,
                             txLog[i].packet)) = 1
        /\ \E k \in DOMAIN notifyLog :
              /\ notifyLog[k].packet = txLog[i].packet
              /\ notifyLog[k].time = txLog[i].time
              /\ ~notifyLog[k].ret
        /\ \E k \in DOMAIN collisions :
              /\ collisions[k].packet_a = txLog[i].packet

\* ------------------------------------------------------------- receive
\* the SUCCESS events among entries s..e of radio R's reception history
Successes(R, s, e) ==
    {k \in DOMAIN radio[R].rx_hist :
        /\ radio[R].rx_hist[k].status = "SUCCESS"
        /\ k \in s..e}
\* the DataPacket of the last of them, or null
LastReceived(R, s, e) ==
    IF Successes(R, s, e) = {} THEN NoData
    ELSE LET k == CHOOSE k \in Successes(R, s, e) :
                      \A j \in Successes(R, s, e) : j <= k
         IN  radio[R].rx_hist[k].packet.data_packet

\* C28, the step in which a receive() returns: the clock is at t + duration
\* and the mode is left OFF.
ReceiveReturns ==
    \A w \in DOMAIN rxLog :
        (rxLog'[w].done /\ ~rxLog[w].done) =>
            /\ now' = rxLog[w].end
            /\ rxLog'[w].at = rxLog[w].end
            /\ radio'[rxLog[w].radio].mode = "OFF"

\* C28, over the run: a receive() has not returned before t + duration and
\* has returned once that tick is over, with the DataPacket of the last
\* SUCCESS event logged in its window or null; and a packet that the window
\* covers with nothing else on air is received, whatever was dropped or
\* collided earlier in the window.
ReceiveWindow ==
    /\ \A w \in DOMAIN rxLog :
          LET e == rxLog[w]
          IN  /\ now < e.end => ~e.done
              /\ Settled(e.end) => e.done
              /\ e.done =>
                    /\ e.at = e.end
                    /\ e.ret = LastReceived(e.radio, e.seen + 1, e.upto)
    /\ \A i \in DOMAIN txLog :
          Clean(i) => Received(Dest(txLog[i].packet), txLog[i].packet,
                               txLog[i].time + txLog[i].packet.duration)

\* C28: receive(duration) started at t returns at exactly t + duration,
\* leaves the mode OFF, and returns the DataPacket of the last SUCCESS
\* logged between its start and its return or null; a packet dropped or collided early in the
\* window does not keep a later one from being received.
C28_ReceiveContract ==
    /\ [][ReceiveReturns]_vars
    /\ []ReceiveWindow

\* a window in which two packets collided, a later one was received before
\* the window's end, and the receive returned it at the end
C28_Witness ==
    \E w \in DOMAIN rxLog :
        LET e == rxLog[w]
        IN  /\ e.done /\ e.ret # NoData
            /\ \E k \in Successes(e.radio, e.seen + 1, e.upto) :
                  \E c \in DOMAIN collisions :
                      /\ radio[e.radio].rx_hist[k].time < e.end
                      /\ collisions[c].time >= e.start
                      /\ collisions[c].time < radio[e.radio].rx_hist[k].time
                      /\ e.radio \in Recipients(collisions[c].packet_a)
                      /\ e.radio \in Recipients(collisions[c].packet_b)

\* ------------------------------------------------ co-firing transmissions
\* how many transmissions of packet P were begun at t, and how many times P
\* was put to the gate of radio R at t
Begun(P, t) ==
    Cardinality({j \in DOMAIN txLog : txLog[j].packet = P /\ txLog[j].time = t})
Routed(P, t, R) ==
    Cardinality({k \in DOMAIN notifyLog : /\ notifyLog[k].packet = P
                                          /\ notifyLog[k].time = t
                                          /\ notifyLog[k].radio = R})

\* C29: every transmission begun at tick t, by any radio and in any order
\* among the transmissions begun at t, two by the same radio included, has
\* been routed by the World once tick t is over: each of its recipients was
\* notified at t once per transmission.
C29_CoFiringRouted ==
    \A i \in DOMAIN txLog :
        LET P == txLog[i].packet
            t == txLog[i].time
        IN  (Known(P) /\ Settled(t)) =>
                \A R \in Recipients(P) : Routed(P, t, R) = Begun(P, t)

\* the same, for ticks at which every radio began at most one transmission
OnePerRadio(t) ==
    \A i, j \in DOMAIN txLog :
        (txLog[i].time = t /\ txLog[j].time = t /\ txLog[i].radio = txLog[j].radio)
            => i = j
CoFiringRoutedAcrossRadios ==
    \A i \in DOMAIN txLog :
        LET P == txLog[i].packet
            t == txLog[i].time
        IN  (Known(P) /\ Settled(t) /\ OnePerRadio(t)) =>
                \A R \in Recipients(P) : Routed(P, t, R) = Begun(P, t)

\* --------------------------------------------- broadcast completeness
\* C7: once the tick of a transmission is over, notify_intent_to_deliver has
\* been called for its packet once per transmission of that packet begun at
\* that tick on the radio of every node but the source when the destination
\* is "All", and never on the source's radio; for any other destination,
\* once per transmission on the radio of the named node and on no other;
\* and it is called for nothing that was not transmitted.
C7_BroadcastCompleteness ==
    /\ \A i \in DOMAIN txLog :
          LET P == txLog[i].packet
              t == txLog[i].time
              to == IF Dest(P) = "All" THEN Names \ {Src(P)} ELSE {Dest(P)}
          IN  /\ \A R \in Names \ to : Routed(P, t, R) = 0
              /\ Settled(t) => \A R \in to : Routed(P, t, R) = Begun(P, t)
    /\ \A k \in DOMAIN notifyLog :
          \E i \in DOMAIN txLog : /\ txLog[i].packet = notifyLog[k].packet
                                  /\ txLog[i].time = notifyLog[k].time

\* the same, for the packets of ticks at which every radio began at most
\* one transmission
BroadcastCompletenessOnePerRadio ==
    /\ \A i \in DOMAIN txLog :
          LET P == txLog[i].packet
              t == txLog[i].time
              to == IF Dest(P) = "All" THEN Names \ {Src(P)} ELSE {Dest(P)}
          IN  /\ \A R \in Names \ to : Routed(P, t, R) = 0
              /\ (Settled(t) /\ OnePerRadio(t)) =>
                    \A R \in to : Routed(P, t, R) = Begun(P, t)
    /\ \A k \in DOMAIN notifyLog :
          \E i \in DOMAIN txLog : /\ txLog[i].packet = notifyLog[k].packet
                                  /\ txLog[i].time = notifyLog[k].time

\* ------------------------------------------------------------ SharedEvent
SharedKinds == {"transmit_event", "receive_event", "awaiting_event"}
\* the event a SharedEvent of node n holds
Held(rad, mg, kind, n) ==
    IF kind = "transmit_event" THEN rad[n].transmit_event
    ELSE IF kind = "receive_event" THEN rad[n].receive_event
    ELSE mg[n].awaiting
\* the triggered events of a SharedEvent that are waiting to be processed
Triggered(q, kind, n) ==
    {k \in DOMAIN q : q[k].kind = kind /\ q[k].node = n}

\* C30, at any time: a triggered event is processed in the tick of its
\* reactivation, and the event a SharedEvent holds is untriggered.
HeldIsFresh ==
    \A kind \in SharedKinds, n \in Names :
        \A k \in Triggered(queue, kind, n) :
            /\ queue[k].time = now
            /\ queue[k].id # Held(radio, mgr, kind, n)

\* C30, the step of reactivate(value): the event that was held is triggered
\* with the value at the current tick and a fresh one is held.
Replaces ==
    \A kind \in SharedKinds, n \in Names :
        Cardinality(Triggered(queue', kind, n)) >
        Cardinality(Triggered(queue, kind, n)) =>
            /\ \E k \in Triggered(queue', kind, n) :
                  /\ queue'[k].id = Held(radio, mgr, kind, n)
                  /\ queue'[k].time = now'
            /\ Held(radio', mgr', kind, n) # Held(radio, mgr, kind, n)
            /\ \A k \in DOMAIN queue' :
                  queue'[k].id # Held(radio', mgr', kind, n)

\* C30, the step in which a triggered event is processed: the tasks parked
\* on that very event get its value and go on in the same tick, and no other
\* task is touched.
Wakes ==
    (Ready /\ ev.kind \in SharedKinds) =>
        /\ now' = ev.time
        /\ ev.kind = "receive_event" =>
              \A pid \in DOMAIN procs :
                  IF /\ procs[pid].kind = "receive"
                     /\ procs[pid].radio = ev.node
                     /\ procs[pid].receiving = ev.id
                  THEN /\ procs'[pid].gotRecv
                       /\ procs'[pid].gotVal = ev.val
                       /\ \E k \in DOMAIN queue' :
                             /\ queue'[k].kind = "condition"
                             /\ queue'[k].pid = pid
                             /\ queue'[k].time = ev.time
                  ELSE procs'[pid] = procs[pid]
        /\ ev.kind = "transmit_event" =>
              IF world.watch[ev.node] = ev.id
              THEN /\ world'.got[ev.node]
                   /\ world'.val[ev.node] = ev.val
                   /\ \E k \in DOMAIN queue' :
                         queue'[k].kind = "any_of" /\ queue'[k].time = ev.time
              ELSE world' = world
        /\ ev.kind = "awaiting_event" =>
              IF /\ is_alive(procs, mgr[ev.node].pid)
                 /\ mgr[ev.node].pc = "idle"
                 /\ mgr[ev.node].waiting = ev.id
              THEN mgr'[ev.node].pc # "idle"
              ELSE mgr' = mgr

\* C30: SharedEvent.reactivate(value) at tick t resumes at t, with the value,
\* every task parked on the event held before the call and leaves a fresh
\* untriggered event held, so that a task reading .event afterwards is not
\* woken by it; of several reactivations in one tick each wakes only the
\* tasks parked on the event it triggered.
C30_ReactivateWakesParked ==
    /\ [][Replaces /\ Wakes]_vars
    /\ []HeldIsFresh

\* two receives of one radio were parked on the one receive-event and both
\* were woken with its packet at the tick of the reactivation, each logging
\* it and returning it; and a radio's transmit-event was reactivated twice
\* in one tick, and the World, parked on the first event only, was woken
\* once
C30_Witness ==
    /\ \E v, w \in DOMAIN rxLog :
          /\ v < w
          /\ rxLog[v].radio = rxLog[w].radio
          /\ rxLog[v].done /\ rxLog[w].done
          /\ rxLog[v].ret # NoData /\ rxLog[w].ret = rxLog[v].ret
          /\ \E a, b \in DOMAIN radio[rxLog[v].radio].rx_hist :
                LET h == radio[rxLog[v].radio].rx_hist
                IN  /\ a < b /\ h[a] = h[b]
                    /\ h[a].status = "SUCCESS"
                    /\ h[a].packet.data_packet = rxLog[v].ret
    /\ \E i, j \in DOMAIN txLog :
          /\ i < j
          /\ txLog[i].radio = txLog[j].radio /\ txLog[i].time = txLog[j].time
          /\ Settled(txLog[i].time)
          /\ Cardinality({k \in DOMAIN notifyLog :
                             /\ notifyLog[k].time = txLog[i].time
                             /\ Src(notifyLog[k].packet) = txLog[i].radio}) =
             Cardinality(Recipients(txLog[i].packet))

\* ------------------------------------------------- trackers and collisions
\* the routing attempts that started a delivery tracker
Tracked == {k \in DOMAIN notifyLog : notifyLog[k].outcome = "tracked"}
\* the end of the airtime of the packet of attempt k
TEnd(k) == notifyLog[k].time + notifyLog[k].packet.duration
\* the last tracker started at the radio of attempt k before k, or 0
Prev(k) ==
    LET js == {j \in Tracked : j < k /\ notifyLog[j].radio = notifyLog[k].radio}
    IN  IF js = {} THEN 0 ELSE CHOOSE j \in js : \A j2 \in js : j2 <= j
\* the attempts that interrupted the tracker started by attempt k
Hits(k) ==
    {j \in DOMAIN notifyLog : notifyLog[j].outcome = "interrupt" /\ Prev(j) = k}
\* the tracker of attempt k is the one its radio holds now
Current(k) ==
    \A j \in Tracked : notifyLog[j].radio = notifyLog[k].radio => j <= k

\* C31: a delivery tracker that a packet interrupted stays live until the
\* end of the airtime of the packet it tracks and no longer; every packet
\* that interrupts it does so before that end and gives one CollisionEvent;
\* the tracked packet is never logged as received; a packet that passes the
\* gate at or after that end starts a tracker of its own, and is received
\* when nothing interrupts it during a window that covers its airtime.
C31_TrackerAfterCollision ==
    /\ \A k \in Tracked :
          LET R == notifyLog[k].radio
              P == notifyLog[k].packet
              pending_rx == radio[R].pending_rx
          IN  /\ Hits(k) # {} =>
                    /\ now < TEnd(k) =>
                          /\ Current(k)
                          /\ is_alive(procs, pending_rx)
                          /\ procs[pending_rx].pkt = P
                          /\ procs[pending_rx].target # 0 =>
                                procs[pending_rx].end_time = TEnd(k)
                    /\ (Settled(TEnd(k)) /\ Current(k)) =>
                          ~is_alive(procs, pending_rx)
                    /\ ~Received(R, P, TEnd(k))
              /\ \A j \in Hits(k) :
                    /\ notifyLog[j].time >= notifyLog[k].time
                    /\ notifyLog[j].time < TEnd(k)
                    /\ notifyLog[j].tracked = P
                    /\ (queue = <<>> \/ ~Head(queue).urgent) =>
                          Count(collisions,
                                CollisionEvent(notifyLog[j].time,
                                               notifyLog[j].packet, P)) =
                          Cardinality({i \in DOMAIN notifyLog :
                              /\ notifyLog[i].outcome = "interrupt"
                              /\ notifyLog[i].time = notifyLog[j].time
                              /\ notifyLog[i].packet = notifyLog[j].packet
                              /\ notifyLog[i].tracked = P})
              /\ (/\ Hits(k) = {}
                  /\ InWindow(R, notifyLog[k].time, TEnd(k), P.rssi)
                  /\ Settled(TEnd(k))) => Received(R, P, TEnd(k))
    /\ \A j \in DOMAIN notifyLog :
          notifyLog[j].ret =>
              IF Prev(j) # 0 /\ notifyLog[j].time < TEnd(Prev(j))
              THEN notifyLog[j].outcome = "interrupt"
              ELSE notifyLog[j].outcome = "tracked"

\* a tracker was interrupted and its packet lost, and a packet that passed
\* the gate exactly at the end of that airtime was tracked afresh and
\* received
C31_Witness ==
    \E k, j \in Tracked :
        /\ Prev(j) = k
        /\ Hits(k) # {}
        /\ notifyLog[j].time = TEnd(k)
        /\ Hits(j) = {}
        /\ Settled(TEnd(j))
        /\ Received(notifyLog[j].radio, notifyLog[j].packet, TEnd(j))
        /\ ~Received(notifyLog[k].radio, notifyLog[k].packet, TEnd(k))

\* C32: every CollisionEvent names two different RadioPackets, and its time
\* lies within the airtime of both at the receiver: it is the arrival of the
\* first, which interrupted the tracker of the second between that
\* tracker's start and the end of the tracked packet's airtime.
C32_CollisionDistinct ==
    \A c \in DOMAIN collisions :
        /\ collisions[c].packet_a # collisions[c].packet_b
        /\ \E j \in DOMAIN notifyLog :
              /\ notifyLog[j].outcome = "interrupt"
              /\ notifyLog[j].packet = collisions[c].packet_a
              /\ notifyLog[j].tracked = collisions[c].packet_b
              /\ notifyLog[j].time = collisions[c].time
              /\ collisions[c].time < notifyLog[j].time + notifyLog[j].packet.duration
              /\ TrackStart(j) <= collisions[c].time
              /\ collisions[c].time <
                     TrackStart(j) + collisions[c].packet_b.duration

\* the same without the demand that the two packets differ
CollisionWithinAirtimes ==
    \A c \in DOMAIN collisions :
        \E j \in DOMAIN notifyLog :
            /\ notifyLog[j].outcome = "interrupt"
            /\ notifyLog[j].packet = collisions[c].packet_a
            /\ notifyLog[j].tracked = collisions[c].packet_b
            /\ notifyLog[j].time = collisions[c].time
            /\ TrackStart(j) <= collisions[c].time
            /\ collisions[c].time <
                   TrackStart(j) + collisions[c].packet_b.duration

\* ------------------------------------------------- the manager's selection
\* a step in which the manager of node n dispatches a schedule
Dispatches(n) == Len(mgr'[n].fired) = Len(mgr[n].fired) + 1
\* the time at which entry x of a manager's list fires next
Due(x) == x.obj.start + x.obj.current * x.obj.delay

\* C33, the step of a dispatch: the schedule dispatched is in the list the
\* manager holds, no schedule of the list fires earlier, and of those that
\* fire at the same time none was added before it.
DispatchesMinimum ==
    \A n \in Names :
        Dispatches(n) =>
            LET f == mgr'[n].fired[Len(mgr'[n].fired)]
                ss == mgr[n].schedules
            IN  \E i \in DOMAIN ss :
                    /\ ss[i].sid = f.sid
                    /\ f.due = Due(ss[i])
                    /\ \A j \in DOMAIN ss :
                          \/ Due(ss[j]) > Due(ss[i])
                          \/ Due(ss[j]) = Due(ss[i]) /\ ss[i].sid <= ss[j].sid

\* C33: the manager always dispatches next the schedule with the minimum
\* next_time() among those it holds, and of several with the same
\* next_time() the one added first.
C33_MinimumNextTimeFirst == [][DispatchesMinimum]_vars

\* two schedules of one manager were due at the same time and the one added
\* first was dispatched first
C33_Witness ==
    \E n \in Names :
        \E k \in DOMAIN mgr[n].fired :
            /\ k + 1 \in DOMAIN mgr[n].fired
            /\ mgr[n].fired[k].due = mgr[n].fired[k + 1].due
            /\ mgr[n].fired[k].sid < mgr[n].fired[k + 1].sid

\* ------------------------------------------------- the manager's list
\* the schedule that node n's manager was given as its sid-th is in its list
InList(m, sid) == \E k \in DOMAIN m.schedules : m.schedules[k].sid = sid
\* the manager stands at a yield from which it selects: the awaiting event
\* or the timeout
Selecting(m) == m.pc \in {"idle", "sleep"}

\* C34, the steps: a schedule leaves the list only in the step that ends the
\* enactment of its last firing (the dispatch of a TX firing, the return of
\* an RX window), and always leaves it then.
RemovedOnCompletion ==
    \A n \in Names : \A k \in DOMAIN mgr[n].schedules :
        LET x == mgr[n].schedules[k]
            last == x.obj.current + 1 = x.obj.num
            txLast == /\ Dispatches(n) /\ x.obj.mode = "TX" /\ last
                      /\ mgr'[n].fired[Len(mgr'[n].fired)].sid = x.sid
            rxLast == /\ Len(mgr'[n].handled) = Len(mgr[n].handled) + 1
                      /\ mgr[n].next = k /\ x.obj.state = "COMPLETE"
        IN  ~InList(mgr'[n], x.sid) <=> (txLast \/ rxLast)

\* C34, at any time: no schedule was dispatched more than num times; one
\* that is not in the list was dispatched num times; while the manager
\* stands at a yield from which it selects, every schedule in its list is
\* short of num firings and not COMPLETE; next_time() never raises; and a
\* manager that runs with an empty list waits on the awaiting-schedules
\* event.
ListHoldsUnfinished ==
    /\ \A n \in Names :
          /\ \A i \in DOMAIN mgr[n].added :
                LET a == mgr[n].added[i]
                    count == Cardinality(Firings(n, a.sid))
                IN  /\ count <= a.obj.num
                    /\ ~InList(mgr[n], a.sid) => count = a.obj.num
                    /\ (InList(mgr[n], a.sid) /\ Selecting(mgr[n])) =>
                          count < a.obj.num
          /\ Selecting(mgr[n]) =>
                \A k \in DOMAIN mgr[n].schedules :
                    /\ mgr[n].schedules[k].obj.state = "ACTIVE"
                    /\ mgr[n].schedules[k].obj.current <
                          mgr[n].schedules[k].obj.num
          /\ (mgr[n].schedules = <<>> /\ mgr[n].pc \notin {"init", "dead", "none"})
                => mgr[n].pc = "idle"
    /\ \A k \in DOMAIN queue :
          queue[k].kind = "fail" => queue[k].cause # "RuntimeError"

\* C34: a schedule is removed from the manager's list exactly when its last
\* firing has been enacted; next_time() is never called on a COMPLETE
\* schedule; no schedule is dispatched more than num times; with an empty
\* list the manager waits on the awaiting-schedules event again.
C34_RemovedWhenComplete ==
    /\ [][RemovedOnCompletion]_vars
    /\ []ListHoldsUnfinished

\* a manager that dispatched a TX schedule of two firings and an RX
\* schedule to their ends, removed both and waits for schedules again
C34_Witness ==
    \E n \in Names :
        /\ Len(mgr[n].added) = 2
        /\ mgr[n].schedules = <<>>
        /\ mgr[n].pc = "idle"
        /\ \E i, j \in DOMAIN mgr[n].added :
              /\ mgr[n].added[i].obj.mode = "TX" /\ mgr[n].added[i].obj.num = 2
              /\ mgr[n].added[j].obj.mode = "RX"
              /\ Cardinality(Firings(n, i)) = 2
              /\ Cardinality(Firings(n, j)) = mgr[n].added[j].obj.num

\* ------------------------------------------------ suspended schedules
\* C35: a schedule whose state is SUSPENDED is not dispatched, and the
\* manager leaves its state and _current as they are.
SuspendedIsSkipped ==
    \A n \in Names : \A k \in DOMAIN mgr[n].schedules :
        LET x == mgr[n].schedules[k]
        IN  x.obj.state = "SUSPENDED" =>
              /\ \E k2 \in DOMAIN mgr'[n].schedules : mgr'[n].schedules[k2] = x
              /\ Dispatches(n) =>
                    mgr'[n].fired[Len(mgr'[n].fired)].sid # x.sid
C35_SuspendedSkipped == [][SuspendedIsSkipped]_vars

\* ------------------------------------------------- bounded histories
\* C36: no history (a radio's transmitted events, a radio's received
\* events, the World's collisions) ever holds more than 100 events, and
\* a step that appends to a history keeps what the history held, in the
\* same order and ahead of the new events, less only as many of the
\* oldest events as there are events beyond 100.  One step appends at
\* most one event per radio on air to a history.
Histories(rad, coll) ==
    [k \in (Names \X {"tx", "rx"}) \cup {<<"World", "collisions">>} |->
        IF k[2] = "tx" THEN rad[k[1]].tx_hist
        ELSE IF k[2] = "rx" THEN rad[k[1]].rx_hist
        ELSE coll]
Bounded == \A k \in DOMAIN Histories(radio, collisions) :
              Len(Histories(radio, collisions)[k]) <= HistCap
AppendsDropOldest ==
    \A k \in DOMAIN Histories(radio, collisions) :
        LET h == Histories(radio, collisions)[k]
            g == Histories(radio', collisions')[k]
        IN  h # g =>
              \E new \in 1..Len(Nodes) :
                 LET gone == Len(h) + new - Len(g)
                 IN  /\ gone = IF Len(h) + new > HistCap
                               THEN Len(h) + new - HistCap ELSE 0
                     /\ gone <= Len(h)
                     /\ SubSeq(g, 1, Len(g) - new) = SubSeq(h, gone + 1, Len(h))
C36_HistoryBounded == []Bounded /\ [][AppendsDropOldest]_vars
\* all three kinds of history have run over: each is full and its oldest
\* event is no longer the first one that was appended
C36_Witness ==
    /\ Len(radio["C"].tx_hist) = HistCap /\ radio["C"].tx_hist[1].time > MaxDur
    /\ Len(radio[Talker].rx_hist) = HistCap
    /\ radio[Talker].rx_hist[1].time > MaxDur
    /\ Len(collisions) = HistCap /\ collisions[1].time > MaxDur

\* ------------------------------------------- several schedules at once
\* C37: with several schedules on one manager the manager task never
\* terminates, and it does not come to rest with a firing k < num of one
\* of its schedules undispatched.  (Stated for schedules that were all
\* added before env.run().)
Exhausted == ~driver.active /\ queue = <<>>
C37_EveryFiringDispatched ==
    \A n \in Names :
        (AllFromStart /\ Len(mgr[n].added) > 1) =>
            /\ mgr[n].pc # "dead"
            /\ Exhausted =>
                  \A i \in DOMAIN mgr[n].added :
                      Cardinality(Firings(n, mgr[n].added[i].sid)) =
                          mgr[n].added[i].obj.num

\* --------------------------------------------- add during an RX window
\* C38: when add is called while the manager waits for the RX window it
\* runs inline, the manager task stays alive and the run goes on, and the
\* window, once its full duration is over, has been handled exactly once,
\* at its end.  (Stated for runs that add to one manager only.)
C38_AddDuringRxWindow ==
    \A n \in Names : \A i \in DOMAIN mgr[n].added :
        LET a == mgr[n].added[i]
        IN  (a.pc = "rx" /\ \A x \in Added : x[1] = n) =>
              /\ mgr[n].pc # "dead"
              /\ is_alive(procs, mgr[n].pid)
              /\ ~halted
              /\ \A j \in DOMAIN mgr[n].fired :
                    LET f == mgr[n].fired[j]
                        end == f.time + mgr[n].added[f.sid].obj.duration
                    IN  (/\ f.mode = "RX" /\ f.time <= a.time /\ a.time <= end
                         /\ Settled(end)) =>
                          Cardinality({k \in DOMAIN mgr[n].handled :
                                          /\ mgr[n].handled[k].sid = f.sid
                                          /\ mgr[n].handled[k].time = end}) = 1

\* ------------------------------------------- one tracker per receiver
\* C39: a radio never has more than one live delivery tracker, and the
\* live one is the one its pending-delivery handle names; a packet that
\* passes the gate while that tracker is live interrupts it and gets no
\* tracker of its own, so of two packets tracked at one radio the later
\* one arrived no earlier than the end of the airtime of the earlier one.
Trackers(r) ==
    {pid \in DOMAIN procs : procs[pid].kind = "tracker" /\ procs[pid].radio = r}
C39_OneTrackerPerRadio ==
    /\ \A r \in Names :
          /\ Cardinality(Trackers(r)) <= 1
          /\ Trackers(r) \subseteq {radio[r].pending_rx}
    /\ \A j, k \in Tracked :
          (j < k /\ notifyLog[j].radio = notifyLog[k].radio) =>
              TEnd(j) <= notifyLog[k].time
    /\ \A j \in DOMAIN notifyLog :
          notifyLog[j].outcome = "interrupt" =>
              /\ Prev(j) # 0
              /\ notifyLog[j].tracked = notifyLog[Prev(j)].packet
              /\ notifyLog[j].time < TEnd(Prev(j))
\* a radio tracked a packet, a second packet interrupted that tracker, and
\* a third packet arrived after that airtime and has a live tracker
C39_Witness ==
    \E j, k \in Tracked :
        /\ Prev(k) = j
        /\ Hits(j) # {}
        /\ Trackers(notifyLog[k].radio) # {}
        /\ \A pid \in Trackers(notifyLog[k].radio) :
              procs[pid].pkt = notifyLog[k].packet

\* ------------------------------------ the receiver leaves RX mid-air
\* window w of the radio of attempt k ended, whatever it returns, while
\* the packet tracked by attempt k was on air
LeftMidAir(k, w) ==
    /\ rxLog[w].radio = notifyLog[k].radio
    /\ rxLog[w].done
    /\ notifyLog[k].time < rxLog[w].at
    /\ rxLog[w].at < TEnd(k)
\* C40: when a radio's window ends while a tracked packet is on air,
\* whether or not the window received an earlier packet, the tracker is
\* interrupted with a string: no
\* CollisionEvent is appended for it (the collision history holds one
\* event per interrupting packet), and the tracked packet is not handed
\* to the radio at the end of its airtime, whatever window is open then: it
\* is not logged as received, and a window opened during the airtime that
\* returns at its end returns nothing.
C40_LeftRxLosesPacket ==
    /\ \A k \in Tracked : \A w \in DOMAIN rxLog :
          LeftMidAir(k, w) =>
             /\ ~Received(notifyLog[k].radio, notifyLog[k].packet, TEnd(k))
             /\ \A v \in DOMAIN rxLog :
                   (/\ rxLog[v].radio = notifyLog[k].radio
                    /\ rxLog[v].start > notifyLog[k].time
                    /\ rxLog[v].done /\ rxLog[v].at = TEnd(k)) =>
                       rxLog[v].ret = NoData
    /\ (queue = <<>> \/ ~Head(queue).urgent) =>
          Len(collisions) =
              Cardinality({j \in DOMAIN notifyLog :
                              notifyLog[j].outcome = "interrupt"})
\* a window that had received an earlier packet ended while a tracked
\* packet was on air, the radio opened a second window before the end of
\* that airtime, and the second window outlasted the airtime and ended
\* with nothing received
C40_Witness ==
    \E k \in Tracked : \E w, v \in DOMAIN rxLog :
        /\ LeftMidAir(k, w)
        /\ rxLog[w].ret # NoData
        /\ rxLog[v].radio = notifyLog[k].radio
        /\ rxLog[w].at <= rxLog[v].start
        /\ rxLog[v].start < TEnd(k)
        /\ TEnd(k) < rxLog[v].end
        /\ rxLog[v].done /\ rxLog[v].ret = NoData
        /\ collisions = <<>>

====
